---- MODULE Spec2Model ----
(***************************************************************************)
(* Batch writer and reader of the DSNP SDK (core/batch): createFile,       *)
(* writeBatch, the hashing write-stream wrapper, readFile.                 *)
(*                                                                         *)
(* The Parquet encoder and the content store are external collaborators.   *)
(* They are modelled by the calls they make on the write stream they are   *)
(* handed and by the rows they hand back; the form in which the encoder    *)
(* hands over its last chunk (write(chunk) followed by end(), or           *)
(* end(chunk) with some byte-array type) is an input of the model.         *)
(* Bytes are natural numbers, byte strings are sequences of them.          *)
(***************************************************************************)
EXTENDS Naturals, Integers, Sequences, FiniteSets, TLC

\* Longest input stream of the single-call specification.
MaxLen == 2
\* Longest input stream of each call of the two-call specification.
MaxLenConc == 1

\* The two createFile calls of the model.
Calls == {1, 2}

\* enum DSNPType: GraphChange = 1 .. Profile = 5.
DSNPType == {1, 2, 3, 4, 5}

\* dsnpType values streams carry: the five of DSNPType and 0, a
\* discriminant that is no DSNPType.
StreamTypes == {0, 1, 2, 3, 4, 5}

\* fromId values of the announcements in a stream.
Ids == {1, 2}

\* How an announcement stream iterates: an array starts over on every
\* iteration; a generator is its own iterator and is finished by return();
\* a plain iterator is its own iterator and has no return().
Kinds == {"array", "generator", "iterator"}

\* A stream either ends after its items or raises at the pull after them.
Terms == {"end", "raise"}

\* What the encoder passes to end(): a callback only, or a last chunk of
\* one of two byte-array types.
EndForms == {"none", "Uint8Array", "Buffer"}

\* ---------------------------------------------------------------------
\* Announcements

\* The fields a signed announcement of each type carries.
AnnouncementFields(t) ==
  CASE t = 1 -> {"dsnpType", "fromId", "changeType", "objectId", "signature"}
    [] t = 2 -> {"dsnpType", "fromId", "url", "contentHash", "signature"}
    [] t = 3 -> {"dsnpType", "fromId", "url", "contentHash", "inReplyTo", "signature"}
    [] t = 4 -> {"dsnpType", "fromId", "emoji", "inReplyTo", "signature"}
    [] t = 5 -> {"dsnpType", "fromId", "url", "contentHash", "signature"}
    [] OTHER -> {"dsnpType", "fromId", "signature"}

\* The value of field f of the announcement of type t from user id.
FieldValue(f, t, id) ==
  CASE f = "dsnpType" -> t
    [] f = "fromId" -> id
    [] f = "changeType" -> 1
    [] f = "objectId" -> 10 + id
    [] f = "url" -> 20 + id
    [] f = "contentHash" -> 30 + id
    [] f = "inReplyTo" -> 40 + id
    [] f = "emoji" -> 50 + id
    [] OTHER -> 60 + id

SignedAnnouncement(t, id) == [f \in AnnouncementFields(t) |-> FieldValue(f, t, id)]

\* ---------------------------------------------------------------------
\* Schema selector

\* getSchemaFor: the columns of each type's schema, in schema order.
SchemaColumns(t) ==
  CASE t = 1 -> <<"changeType", "dsnpType", "fromId", "signature">>
    [] t = 2 -> <<"dsnpType", "contentHash", "fromId", "url", "signature">>
    [] t = 3 -> <<"dsnpType", "contentHash", "fromId", "inReplyTo", "url", "signature">>
    [] t = 4 -> <<"dsnpType", "emoji", "fromId", "inReplyTo", "signature">>
    [] t = 5 -> <<"dsnpType", "fromId", "url", "signature">>
    [] OTHER -> <<>>

BloomFilterColumns_fromIdOnly(t) == IF t \in DSNPType THEN <<"fromId">> ELSE <<>>
\* getBloomFilterOptionsFor: the indexed columns, in order.
BloomFilterColumns(t) ==
  CASE t = 3 -> <<"fromId", "inReplyTo">>
    [] t = 4 -> <<"emoji", "fromId", "inReplyTo">>
    [] t \in {1, 2, 5} -> <<"fromId">>
    [] OTHER -> <<>>

Range(s) == {s[i] : i \in 1..Len(s)}

\* The storage type of a column.
ColumnType(column) ==
  IF column \in {"dsnpType", "changeType"} THEN "INT32" ELSE "BYTE_ARRAY"

\* getSchemaFor(t): the schema, or the error thrown.
getSchemaFor(t) ==
  IF t \in DSNPType
  THEN [error |-> "none",
        schema |-> [i \in 1..Len(SchemaColumns(t)) |->
                     [name |-> SchemaColumns(t)[i],
                      type |-> ColumnType(SchemaColumns(t)[i])]]]
  ELSE [error |-> "InvalidAnnouncementTypeError", schema |-> <<>>]

\* getBloomFilterOptionsFor(t): the options, or the error thrown.
getBloomFilterOptionsFor(t) ==
  IF t \in DSNPType
  THEN [error |-> "none", bloomFilters |-> BloomFilterColumns(t)]
  ELSE [error |-> "InvalidAnnouncementTypeError", bloomFilters |-> <<>>]

\* Neither getSchemaFor nor getBloomFilterOptionsFor throws for the
\* discriminant (t is <<>> or <<discriminant>>).
SchemaDefined(t) ==
  /\ Len(t) > 0
  /\ getSchemaFor(t[1]).error = "none"
  /\ getBloomFilterOptionsFor(t[1]).error = "none"

\* ---------------------------------------------------------------------
\* Byte strings

RECURSIVE Flatten(_)
\* The concatenation of a sequence of byte strings.
Flatten(ss) ==
  IF Len(ss) = 0 THEN <<>>
  ELSE IF Len(ss) = 1 THEN ss[1]
  ELSE Flatten(SubSeq(ss, 1, Len(ss) \div 2))
         \o Flatten(SubSeq(ss, (Len(ss) \div 2) + 1, Len(ss)))

\* The magic bytes "PAR1" that open and close a Parquet file.
PARQUET_MAGIC == <<80, 65, 82, 49>>

\* shredRecord: a row under a schema is the values of the schema's columns,
\* in schema order; fields outside the schema are not stored.
EncodeRow(cols, a) == [i \in 1..Len(cols) |-> a[cols[i]]]

\* A required column that the record lacks makes appendRow throw.
RowFits(cols, a) == Range(cols) \subseteq DOMAIN a

\* The row group: the buffered rows one after the other.
EncodeRowGroup(cols, rows) == Flatten([i \in 1..Len(rows) |-> EncodeRow(cols, rows[i])])

\* The number of bits of a split-block bloom filter of the model.
BloomBits == 2

\* The bit of the filter an item hashes to.
BloomHash(item) == item % BloomBits

\* The writer's filters as it opens: one per column of the bloomFilters
\* option, with no bit set.
createSBBF(bloomFilters) ==
  [k \in 1..Len(bloomFilters) |-> [column |-> bloomFilters[k], sbbf |-> {}]]

\* sbbf.insert(value), for the value each row holds in the filter's column.
InsertRows(filter, rows) ==
  [filter EXCEPT !.sbbf = @ \cup {BloomHash(rows[i][filter.column]) : i \in 1..Len(rows)}]

\* A filter in the file: the place of its column in the schema, then its
\* bits.
EncodeBloomFilter(cols, filter) ==
  <<CHOOSE k \in 1..Len(cols) : cols[k] = filter.column>>
    \o [b \in 1..BloomBits |-> IF (b - 1) \in filter.sbbf THEN 1 ELSE 0]

\* The footer: the bloom filters, their number, the schema's type, the
\* number of rows, the closing magic.
EncodeFooter(t, n, filters) ==
  Flatten([k \in 1..Len(filters) |-> EncodeBloomFilter(SchemaColumns(t), filters[k])])
    \o <<Len(filters), t, n>> \o PARQUET_MAGIC

\* Where the footer of an encoded file puts its parts, <<>> for a file
\* without footer: the schema's type, the number of rows, the number of
\* filters, and the last byte of the row group.
FileMetaData(bytes) ==
  LET n == Len(bytes)
      m == Len(PARQUET_MAGIC)
  IN  IF n < 2 * m + 3 \/ SubSeq(bytes, n - m + 1, n) # PARQUET_MAGIC THEN <<>>
      ELSE IF n - m - 3 - bytes[n - m - 2] * (1 + BloomBits) < m THEN <<>>
      ELSE <<[t |-> bytes[n - m - 1], rows |-> bytes[n - m], filters |-> bytes[n - m - 2],
              bodyEnd |-> n - m - 3 - bytes[n - m - 2] * (1 + BloomBits)]>>

\* ParquetReader: the rows of an encoded file, in storage order, rebuilt
\* from the schema the footer names.  A file without footer has no rows.
DecodeRows(bytes) ==
  LET meta == FileMetaData(bytes)
      cols == SchemaColumns(meta[1].t)
      w    == Len(cols)
      body == SubSeq(bytes, Len(PARQUET_MAGIC) + 1, meta[1].bodyEnd)
  IN  IF meta = <<>> THEN <<>>
      ELSE IF Len(body) # meta[1].rows * w THEN <<>>
      ELSE [i \in 1..meta[1].rows |->
             [f \in Range(cols) |->
               body[(i - 1) * w + CHOOSE k \in 1..w : cols[k] = f]]]

\* The values an item of a column can be.
Items == 0..63

\* reader.getBloomFilters(columns): for each of the columns the file has
\* a filter for, the blocks of the column, one per row group.  A block is
\* the set of items its check reports as possibly present: those that
\* hash to a bit that is set.
getBloomFilters(bytes, columns) ==
  LET meta == FileMetaData(bytes)
      cols == SchemaColumns(meta[1].t)
      at(k) == meta[1].bodyEnd + (k - 1) * (1 + BloomBits)
      held == IF meta = <<>> THEN {}
              ELSE {k \in 1..meta[1].filters : cols[bytes[at(k) + 1]] \in columns}
  IN  [column \in {cols[bytes[at(k) + 1]] : k \in held} |->
        LET k == CHOOSE j \in held : cols[bytes[at(j) + 1]] = column
        IN  <<{item \in Items : bytes[at(k) + 2 + BloomHash(item)] = 1}>>]

\* ---------------------------------------------------------------------
\* keccak256 accumulator: the message is the concatenation of the chunks
\* it was updated with; the digest is a function of that message alone.

update(gen, data) == gen \o data

hex(gen) == [keccak256 |-> gen]

\* ---------------------------------------------------------------------
\* Announcement streams (AsyncOrSyncIterable)

SeqsUpTo(S, n) == UNION {[1..k -> S] : k \in 0..n}

\* The streams of the single-call specification.  An array cannot raise.
Streams ==
  {x \in [kind : Kinds, term : Terms,
          items : SeqsUpTo({SignedAnnouncement(t, id) : t \in StreamTypes, id \in Ids}, MaxLen)] :
     ~(x.kind = "array" /\ x.term = "raise")}

\* The streams of the two-call specification: arrays of Broadcasts and
\* Replies.
ConcStreams ==
  {[kind |-> "array", items |-> s, term |-> "end"] :
     s \in SeqsUpTo({SignedAnnouncement(t, 1) : t \in {2, 3}}, MaxLenConc)}

\* A call that is never issued has this stream.
NoStream == [kind |-> "array", items |-> <<>>, term |-> "end"]

\* Destination keys.
Paths == {1, 2}

\* for await (... of announcements): the iterator the loop works on.  An
\* array hands out a fresh iterator; a generator or iterator hands out
\* itself, in the state earlier loops left it in.
GetIterator(s, it) ==
  IF s.kind = "array" THEN [pos |-> 0, done |-> FALSE] ELSE it

\* What the next pull gives: a value, the end of the stream, or a throw.
NextKind(s, it) ==
  IF it.done THEN "done"
  ELSE IF it.pos < Len(s.items) THEN "value"
  ELSE IF s.term = "raise" THEN "throw"
  ELSE "done"

\* The iterator after a pull.
Advance(s, it) ==
  IF NextKind(s, it) = "value" THEN [it EXCEPT !.pos = @ + 1]
  ELSE [it EXCEPT !.done = TRUE]

\* Leaving the loop early (break, throw) calls the iterator's return():
\* it finishes a generator; a plain iterator has none; an array iterator
\* is thrown away.
IteratorReturn(s, it) ==
  IF s.kind = "generator" THEN [it EXCEPT !.done = TRUE] ELSE it

\* ---------------------------------------------------------------------
\* State

VARIABLES
  announcements,    \* the stream each call is given
  targetPath,       \* the destination key each call is given
  storeConfigured,  \* whether opts / the config hold a store
  pc,               \* where each call is
  iter,             \* the state of the stream's own iterator
  yielded,          \* how many elements the stream has yielded in total
  dsnpType,         \* createFile's dsnpType: <<>> is undefined, else <<t>>
  firstDsnpType,    \* writeBatch's firstDsnpType, likewise
  putStreamCalled,  \* whether store.putStream was called
  hashGenerator,    \* the message each keccak256 accumulator has taken in
  wrapperCalls,     \* the calls made on hashingWriteStream, in order
  sink,             \* the calls the store's writeStream received, in order
  lastResult,       \* what the last write returned: by the sink, by the wrapper
  writer,           \* the ParquetWriter: opened, buffered rows, closed, bloom filters
  result,           \* what createFile returned or threw
  cursor,           \* readFile: rows the cursor has handed out
  visited,          \* readFile: the rows doReadRow was called with
  readerClosed,     \* readFile: how many times reader.close() ran
  argument,         \* a pure function's argument: <<>> is none, else <<a>>
  returned,         \* what it returned or threw: <<>> is not called yet
  config,           \* what opts and getConfig() hold for the content calls
  testStore,        \* TestStore.store: the content under each path
  contentCalls,     \* the calls of content.ts and of sign: arguments, locals, position
  microtasks        \* the calls whose continuation is queued, first in first out

vars == <<announcements, targetPath, storeConfigured, pc, iter, yielded,
          dsnpType, firstDsnpType, putStreamCalled, hashGenerator,
          wrapperCalls, sink, lastResult, writer, result, cursor, visited,
          readerClosed, argument, returned, config, testStore, contentCalls,
          microtasks>>

\* The state of the content calls.
contentVars == <<config, testStore, contentCalls, microtasks>>

\* What no step of createFile or readFile assigns.
inputs == <<announcements, targetPath, storeConfigured, argument, returned, contentVars>>
readVars == <<cursor, visited, readerClosed>>

Pending == [status |-> "pending", url |-> 0, hash |-> hex(<<>>)]

\* A call that threw: no url, no hash.
Thrown(e) == [status |-> e, url |-> 0, hash |-> hex(<<>>)]

InitState ==
  /\ iter = [c \in Calls |-> [pos |-> 0, done |-> FALSE]]
  /\ yielded = [c \in Calls |-> 0]
  /\ dsnpType = [c \in Calls |-> <<>>]
  /\ firstDsnpType = [c \in Calls |-> <<>>]
  /\ putStreamCalled = [c \in Calls |-> FALSE]
  /\ hashGenerator = [c \in Calls |-> <<>>]
  /\ wrapperCalls = [c \in Calls |-> <<>>]
  /\ sink = [c \in Calls |-> <<>>]
  /\ lastResult = [c \in Calls |-> [inner |-> TRUE, outer |-> TRUE]]
  /\ writer = [c \in Calls |-> [opened |-> FALSE, rows |-> <<>>, closed |-> FALSE,
                                bloomFilters |-> <<>>]]
  /\ result = [c \in Calls |-> Pending]
  /\ cursor = [c \in Calls |-> 0]
  /\ visited = [c \in Calls |-> <<>>]
  /\ readerClosed = [c \in Calls |-> 0]

\* No call of content.ts or of sign was made.
NoContent ==
  /\ config = [currentFromId |-> <<>>, store |-> FALSE, signer |-> <<>>, provider |-> <<>>]
  /\ testStore = <<>>
  /\ contentCalls = <<>>
  /\ microtasks = <<>>

\* No pure function is under call, and no content call.
NoCall ==
  /\ argument = <<>>
  /\ returned = <<>>
  /\ NoContent

\* No createFile or readFile call is under way.
NoBatch ==
  /\ announcements = [c \in Calls |-> NoStream]
  /\ targetPath = [c \in Calls |-> 1]
  /\ storeConfigured = [c \in Calls |-> TRUE]
  /\ pc = [c \in Calls |-> "idle"]
  /\ InitState

\* One createFile call, on any stream.
Init ==
  /\ \E s \in Streams : announcements = [c \in Calls |-> IF c = 1 THEN s ELSE NoStream]
  /\ targetPath \in [Calls -> Paths]
  /\ \E b \in BOOLEAN : storeConfigured = [c \in Calls |-> b]
  /\ pc = [c \in Calls |-> IF c = 1 THEN "peek" ELSE "idle"]
  /\ InitState
  /\ NoCall

\* Two createFile calls at once, with a store.
InitConc ==
  /\ announcements \in [Calls -> ConcStreams]
  /\ targetPath \in [Calls -> Paths]
  /\ storeConfigured = [c \in Calls |-> TRUE]
  /\ pc = [c \in Calls |-> "peek"]
  /\ InitState
  /\ NoCall

\* ---------------------------------------------------------------------
\* The hashing wrapper (hashingWriteStream)

\* A chunk of bytes of some byte-array type.
Chunk(kind, data) == [kind |-> kind, data |-> data]

\* end() called with a callback and no chunk.
NoChunk == [kind |-> "none", data |-> <<>>]

\* One accumulator, created once, that every call feeds.
hashGeneratorShared(c) == 1

\* const hashGenerator = keccak256.create(): each call creates its own.
hashGeneratorOf(c) == c

\* write: the call passed on to writeStream.write.
hashingWriteStream_write(chunk) ==
  [op |-> "write", kind |-> chunk.kind, data |-> chunk.data]

\* write: what the accumulator holds afterwards.
hashingWriteStream_write_update(gen, chunk) == update(gen, chunk.data)

\* write: the wrapper returns what writeStream.write returned.
hashingWriteStream_write_result(r) == r

\* An end that calls writeStream.end() without the arguments it was given.
hashingWriteStream_end_noArgs(arg) ==
  [op |-> "end", kind |-> "none", data |-> <<>>]

\* end: the call passed on to writeStream.end.
hashingWriteStream_end(arg) ==
  [op |-> "end", kind |-> arg.kind, data |-> arg.data]

\* end: the accumulator takes the first argument in only when it is an
\* object whose constructor is Uint8Array itself.
hashingWriteStream_end_update(gen, arg) ==
  IF arg.kind = "Uint8Array" THEN update(gen, arg.data) ELSE gen

\* The encoder calls hashingWriteStream.write(chunk); the sink answers r.
WrapperWrite(c, chunk, r) ==
  /\ wrapperCalls' = [wrapperCalls EXCEPT ![c] =
                        Append(@, [op |-> "write", kind |-> chunk.kind, data |-> chunk.data])]
  /\ hashGenerator' = [hashGenerator EXCEPT ![hashGeneratorOf(c)] =
                        hashingWriteStream_write_update(@, chunk)]
  /\ sink' = [sink EXCEPT ![c] = Append(@, hashingWriteStream_write(chunk))]
  /\ lastResult' = [lastResult EXCEPT ![c] =
                        [inner |-> r, outer |-> hashingWriteStream_write_result(r)]]

\* The encoder calls hashingWriteStream.end(arg).
WrapperEnd(c, arg) ==
  /\ wrapperCalls' = [wrapperCalls EXCEPT ![c] =
                        Append(@, [op |-> "end", kind |-> arg.kind, data |-> arg.data])]
  /\ hashGenerator' = [hashGenerator EXCEPT ![hashGeneratorOf(c)] =
                        hashingWriteStream_end_update(@, arg)]
  /\ sink' = [sink EXCEPT ![c] = Append(@, hashingWriteStream_end(arg))]
  /\ UNCHANGED lastResult

\* ---------------------------------------------------------------------
\* createFile

\* A createFile that does not check for an undefined dsnpType.
createFile_isEmpty_unchecked(t) == FALSE

\* createFile: if (dsnpType === undefined) throw new EmptyBatchError()
createFile_isEmpty(t) == t = <<>>

\* writeBatch: if (firstDsnpType === undefined) throw new EmptyBatchError(writeStream)
writeBatch_isEmpty(t) == t = <<>>

\* createFile or writeBatch throws e.
Throw(c, e) ==
  /\ pc' = [pc EXCEPT ![c] = "failed"]
  /\ result' = [result EXCEPT ![c] = Thrown(e)]

\* What createFile waits for at an await of next(): the pulled value, the
\* end of the stream, or the stream's error.
Pulled(k) == CASE k = "value" -> "Value" [] k = "throw" -> "Throw" [] OTHER -> "Done"

\* The peek loop, up to its await: for await asks the stream for an
\* iterator and calls next() on it.
Peek(c) ==
  /\ pc[c] = "peek"
  /\ LET s  == announcements[c]
         it == GetIterator(s, iter[c])
         k  == NextKind(s, it)
     IN  /\ iter' = [iter EXCEPT ![c] = Advance(s, it)]
         /\ yielded' = [yielded EXCEPT ![c] = IF k = "value" THEN @ + 1 ELSE @]
         /\ pc' = [pc EXCEPT ![c] = "peek" \o Pulled(k)]
  /\ UNCHANGED <<inputs, dsnpType, firstDsnpType, putStreamCalled, hashGenerator,
                 wrapperCalls, sink, lastResult, writer, result, readVars>>

\* The peek loop, after the await: the body keeps the element's dsnpType
\* and breaks, which calls the iterator's return(); a stream that ended
\* leaves dsnpType undefined and createFile throws EmptyBatchError; a
\* stream that raised makes createFile throw its error.
PeekBody(c) ==
  /\ pc[c] \in {"peekValue", "peekDone", "peekThrow"}
  /\ LET s == announcements[c]
     IN  /\ iter' = [iter EXCEPT ![c] =
                       IF pc[c] = "peekValue" THEN IteratorReturn(s, @) ELSE @]
         /\ dsnpType' = [dsnpType EXCEPT ![c] =
                       IF pc[c] = "peekValue" THEN <<s.items[iter[c].pos].dsnpType>> ELSE @]
         /\ IF pc[c] = "peekThrow" THEN Throw(c, "StreamError")
            ELSE IF createFile_isEmpty(dsnpType'[c]) THEN Throw(c, "EmptyBatchError")
            ELSE /\ pc' = [pc EXCEPT ![c] = "schema"]
                 /\ UNCHANGED result
  /\ UNCHANGED <<inputs, yielded, firstDsnpType, putStreamCalled, hashGenerator,
                 wrapperCalls, sink, lastResult, writer, readVars>>

\* getSchemaFor, getBloomFilterOptionsFor, requireGetStore.
SelectSchema_storeFirst(c) ==
  /\ pc[c] = "schema"
  /\ IF ~storeConfigured[c] THEN Throw(c, "MissingStoreConfigError")
     ELSE /\ pc' = [pc EXCEPT ![c] = "putStream"]
          /\ UNCHANGED result
  /\ UNCHANGED <<inputs, iter, yielded, dsnpType, firstDsnpType, putStreamCalled,
                 hashGenerator, wrapperCalls, sink, lastResult, writer, readVars>>
SelectSchema(c) ==
  /\ pc[c] = "schema"
  /\ IF ~SchemaDefined(dsnpType[c]) THEN Throw(c, "InvalidAnnouncementTypeError")
     ELSE IF ~storeConfigured[c] THEN Throw(c, "MissingStoreConfigError")
     ELSE /\ pc' = [pc EXCEPT ![c] = "putStream"]
          /\ UNCHANGED result
  /\ UNCHANGED <<inputs, iter, yielded, dsnpType, firstDsnpType, putStreamCalled,
                 hashGenerator, wrapperCalls, sink, lastResult, writer, readVars>>

\* keccak256.create(); store.putStream(targetPath, callback): the store
\* opens a writeStream and runs the callback, which calls writeBatch.
PutStream(c) ==
  /\ pc[c] = "putStream"
  /\ hashGenerator' = [hashGenerator EXCEPT ![hashGeneratorOf(c)] = <<>>]
  /\ putStreamCalled' = [putStreamCalled EXCEPT ![c] = TRUE]
  /\ pc' = [pc EXCEPT ![c] = "openStream"]
  /\ UNCHANGED <<inputs, iter, yielded, dsnpType, firstDsnpType, wrapperCalls,
                 sink, lastResult, writer, result, readVars>>

\* ---------------------------------------------------------------------
\* writeBatch

WriterBloomFilters_none(c) == <<>>
\* The bloomFilters option createFile hands to writeBatch and writeBatch to
\* ParquetWriter.openStream: the columns the writer indexes.
WriterBloomFilters(c) == getBloomFilterOptionsFor(dsnpType[c][1]).bloomFilters

\* await ParquetWriter.openStream(schema, writeStream, opts): the writer
\* sets up a filter per column of opts.bloomFilters and writes the file's
\* magic.
OpenStream(c) ==
  /\ pc[c] = "openStream"
  /\ \E r \in BOOLEAN : WrapperWrite(c, Chunk("Buffer", PARQUET_MAGIC), r)
  /\ writer' = [writer EXCEPT ![c].opened = TRUE,
                              ![c].bloomFilters = createSBBF(WriterBloomFilters(c))]
  /\ pc' = [pc EXCEPT ![c] = "loopStart"]
  /\ UNCHANGED <<inputs, iter, yielded, dsnpType, firstDsnpType, putStreamCalled,
                 result, readVars>>

\* One turn of writeBatch's loop, up to its await: the first turn asks
\* the stream for an iterator; every turn calls next() on it.
PullNext(c) ==
  /\ pc[c] \in {"loopStart", "loop"}
  /\ LET s  == announcements[c]
         it == IF pc[c] = "loopStart" THEN GetIterator(s, iter[c]) ELSE iter[c]
         k  == NextKind(s, it)
     IN  /\ iter' = [iter EXCEPT ![c] = Advance(s, it)]
         /\ yielded' = [yielded EXCEPT ![c] = IF k = "value" THEN @ + 1 ELSE @]
         /\ pc' = [pc EXCEPT ![c] = "loop" \o Pulled(k)]
  /\ UNCHANGED <<inputs, dsnpType, firstDsnpType, putStreamCalled, hashGenerator,
                 wrapperCalls, sink, lastResult, writer, result, readVars>>

\* One turn of the loop, after an await.  After next(): set firstDsnpType
\* if undefined; throw MixedTypeBatchError on another type; appendRow.  A
\* stream that raised makes writeBatch throw its error; after a stream
\* that ended, an undefined firstDsnpType throws EmptyBatchError.  After
\* the return() a throwing body caused: writeBatch, the store's putStream
\* and createFile reject with the body's error.
AppendNext(c) ==
  LET s     == announcements[c]
      a     == s.items[iter[c].pos]
      first == IF firstDsnpType[c] = <<>> THEN <<a.dsnpType>> ELSE firstDsnpType[c]
      \* what the body throws; leaving the loop with it calls the
      \* iterator's return() and waits for it before writeBatch rejects
      bodyErrors == {"MixedTypeBatchError", "MissingRequiredFieldError"}
      error == IF a.dsnpType # first[1] THEN "MixedTypeBatchError"
               ELSE IF ~RowFits(SchemaColumns(dsnpType[c][1]), a)
                 THEN "MissingRequiredFieldError"
               ELSE "none"
  IN  /\ pc[c] \in {"loopValue", "loopDone", "loopThrow"} \cup bodyErrors
      /\ IF pc[c] = "loopValue"
         THEN /\ firstDsnpType' = [firstDsnpType EXCEPT ![c] = first]
              /\ UNCHANGED result
              /\ IF error \in bodyErrors
                 THEN /\ iter' = [iter EXCEPT ![c] = IteratorReturn(s, @)]
                      /\ pc' = [pc EXCEPT ![c] = error]
                      /\ UNCHANGED writer
                 ELSE /\ writer' = [writer EXCEPT ![c].rows = Append(@, a)]
                      /\ pc' = [pc EXCEPT ![c] = "loop"]
                      /\ UNCHANGED iter
         ELSE /\ UNCHANGED <<iter, firstDsnpType, writer>>
              /\ IF pc[c] \in bodyErrors THEN Throw(c, pc[c])
                 ELSE IF pc[c] = "loopThrow" THEN Throw(c, "StreamError")
                 ELSE IF writeBatch_isEmpty(firstDsnpType[c]) THEN Throw(c, "EmptyBatchError")
                 ELSE /\ pc' = [pc EXCEPT ![c] = "close"]
                      /\ UNCHANGED result
      /\ UNCHANGED <<inputs, yielded, dsnpType, putStreamCalled, hashGenerator,
                     wrapperCalls, sink, lastResult, readVars>>

\* writer.close(), first part: the buffered rows go out as one row group,
\* and the value of each indexed column goes into the column's filter.
CloseRowGroup(c) ==
  /\ pc[c] = "close"
  /\ \E r \in BOOLEAN :
       WrapperWrite(c, Chunk("Buffer",
                      EncodeRowGroup(SchemaColumns(dsnpType[c][1]), writer[c].rows)), r)
  /\ writer' = [writer EXCEPT ![c].bloomFilters =
                  [k \in 1..Len(@) |-> InsertRows(@[k], writer[c].rows)]]
  /\ pc' = [pc EXCEPT ![c] = "footer"]
  /\ UNCHANGED <<inputs, iter, yielded, dsnpType, firstDsnpType, putStreamCalled,
                 result, readVars>>

\* writer.close(), second part: the bloom filters and the footer go out,
\* either with write, end() following, or as the chunk of end(chunk).
WriteFooter(c) ==
  /\ pc[c] = "footer"
  /\ LET footer == EncodeFooter(dsnpType[c][1], Len(writer[c].rows), writer[c].bloomFilters)
     IN  \E form \in EndForms :
           IF form = "none"
           THEN /\ \E r \in BOOLEAN : WrapperWrite(c, Chunk("Buffer", footer), r)
                /\ pc' = [pc EXCEPT ![c] = "end"]
                /\ UNCHANGED writer
           ELSE /\ WrapperEnd(c, Chunk(form, footer))
                /\ writer' = [writer EXCEPT ![c].closed = TRUE]
                /\ pc' = [pc EXCEPT ![c] = "return"]
  /\ UNCHANGED <<inputs, iter, yielded, dsnpType, firstDsnpType, putStreamCalled,
                 result, readVars>>

\* writer.close(), last part: end() with no chunk.
EndStream(c) ==
  /\ pc[c] = "end"
  /\ WrapperEnd(c, NoChunk)
  /\ writer' = [writer EXCEPT ![c].closed = TRUE]
  /\ pc' = [pc EXCEPT ![c] = "return"]
  /\ UNCHANGED <<inputs, iter, yielded, dsnpType, firstDsnpType, putStreamCalled,
                 result, readVars>>

\* putStream resolves with the store's URL, one of two; createFile returns
\* {url, hash}.
Return(c) ==
  /\ pc[c] = "return"
  /\ \E u \in {1, 2} :
       result' = [result EXCEPT ![c] =
                    [status |-> "ok", url |-> u, hash |-> hex(hashGenerator[hashGeneratorOf(c)])]]
  /\ pc' = [pc EXCEPT ![c] = "done"]
  /\ UNCHANGED <<inputs, iter, yielded, dsnpType, firstDsnpType, putStreamCalled,
                 hashGenerator, wrapperCalls, sink, lastResult, writer, readVars>>

\* ---------------------------------------------------------------------
\* readFile on the artifact a call produced

\* The bytes the store's sink received, in order.
SinkBytes(c) == Flatten([i \in 1..Len(sink[c]) |-> sink[c][i].data])

\* The rows a reader opened on the artifact holds.
ReaderRows(c) == DecodeRows(SinkBytes(c))

\* openFile / openURL, reader.getCursor().
OpenFile(c) ==
  /\ pc[c] = "done"
  /\ pc' = [pc EXCEPT ![c] = "read"]
  /\ cursor' = [cursor EXCEPT ![c] = 0]
  /\ UNCHANGED <<inputs, iter, yielded, dsnpType, firstDsnpType, putStreamCalled,
                 hashGenerator, wrapperCalls, sink, lastResult, writer, result,
                 visited, readerClosed>>

\* record = await cursor.next(), up to the await: the cursor hands out
\* its next row, or null after the last.
ReadNext(c) ==
  /\ pc[c] = "read"
  /\ IF cursor[c] < Len(ReaderRows(c))
     THEN /\ cursor' = [cursor EXCEPT ![c] = @ + 1]
          /\ pc' = [pc EXCEPT ![c] = "readRow"]
     ELSE /\ pc' = [pc EXCEPT ![c] = "readEnd"]
          /\ UNCHANGED cursor
  /\ UNCHANGED <<inputs, iter, yielded, dsnpType, firstDsnpType, putStreamCalled,
                 hashGenerator, wrapperCalls, sink, lastResult, writer, result,
                 visited, readerClosed>>

\* doReadRow(record), after the await.  doReadRow is the caller's: it
\* returns or it raises, and what it raises leaves readFile at once.
VisitRow(c) ==
  /\ pc[c] = "readRow"
  /\ visited' = [visited EXCEPT ![c] = Append(@, ReaderRows(c)[cursor[c]])]
  /\ \E raises \in BOOLEAN :
       pc' = [pc EXCEPT ![c] = IF raises THEN "readFailed" ELSE "read"]
  /\ UNCHANGED <<inputs, iter, yielded, dsnpType, firstDsnpType, putStreamCalled,
                 hashGenerator, wrapperCalls, sink, lastResult, writer, result,
                 cursor, readerClosed>>

\* sbbf.check(item) of a block: a block is the set of items its check
\* reports as possibly present.
check(data, item) == item \in data

includes_firstBlock(bloomFilterData, column, item) ==
  /\ column \in DOMAIN bloomFilterData
  /\ bloomFilterData[column] # <<>>
  /\ check(bloomFilterData[column][1], item)
\* includes: bloomFilterData is what reader.getBloomFilters([column])
\* resolves to, a mapping that holds the column only if the reader has
\* blocks for it; (bloomFilterData[column] || []).some(check).
includes(bloomFilterData, column, item) ==
  LET blocks == IF column \in DOMAIN bloomFilterData THEN bloomFilterData[column] ELSE <<>>
  IN  \E i \in 1..Len(blocks) : check(blocks[i], item)

\* The columns and the items includes is called with.
ProbedColumns == {"fromId", "inReplyTo", "emoji", "url"}
ProbedItems == {1, 2, 3, 41, 51}

\* includes(reader, column, item) on the reader just opened, in place of
\* readFile: the blocks reader.getBloomFilters([column]) resolves to, and
\* whether one of them reports the item.
IncludesOnFile(c) ==
  /\ pc[c] = "read" /\ cursor[c] = 0
  /\ returned = <<>>
  /\ \E column \in ProbedColumns, item \in ProbedItems :
       /\ argument' = <<[reader |-> c, column |-> column, item |-> item]>>
       /\ returned' = <<includes(getBloomFilters(SinkBytes(c), {column}), column, item)>>
  /\ pc' = [pc EXCEPT ![c] = "included"]
  /\ UNCHANGED <<announcements, targetPath, storeConfigured, contentVars, iter,
                 yielded, dsnpType, firstDsnpType, putStreamCalled, hashGenerator,
                 wrapperCalls, sink, lastResult, writer, result, readVars>>

\* return reader.close(), after the await that gave null.
CloseReader(c) ==
  /\ pc[c] = "readEnd"
  /\ readerClosed' = [readerClosed EXCEPT ![c] = @ + 1]
  /\ pc' = [pc EXCEPT ![c] = "readDone"]
  /\ UNCHANGED <<inputs, iter, yielded, dsnpType, firstDsnpType, putStreamCalled,
                 hashGenerator, wrapperCalls, sink, lastResult, writer, result,
                 cursor, visited>>

\* ---------------------------------------------------------------------
\* Specifications

CreateFile(c) ==
  \/ Peek(c)
  \/ PeekBody(c)
  \/ SelectSchema(c)
  \/ PutStream(c)
  \/ OpenStream(c)
  \/ PullNext(c)
  \/ AppendNext(c)
  \/ CloseRowGroup(c)
  \/ WriteFooter(c)
  \/ EndStream(c)
  \/ Return(c)

ReadFile(c) ==
  \/ OpenFile(c)
  \/ IncludesOnFile(c)
  \/ ReadNext(c)
  \/ VisitRow(c)
  \/ CloseReader(c)

Next == \E c \in Calls : CreateFile(c) \/ ReadFile(c)

Spec == Init /\ [][Next]_vars

NextConc == \E c \in Calls : CreateFile(c)

SpecConc == InitConc /\ [][NextConc]_vars

\* ---------------------------------------------------------------------
\* Properties

\* createFile has returned or thrown.
Finished(c) ==
  pc[c] \in {"failed", "done", "read", "readRow", "readEnd", "readDone", "readFailed"}

\* All elements of the stream have the type of the first.
Homogeneous(s) == \A i \in 1..Len(s.items) : s.items[i].dsnpType = s.items[1].dsnpType

\* The stream can be written: it has a first element of a type with a
\* schema, it ends without raising, and a store is configured.
Writable(c) ==
  /\ pc[c] # "idle"
  /\ Len(announcements[c].items) >= 1
  /\ announcements[c].items[1].dsnpType \in DSNPType
  /\ announcements[c].term = "end"
  /\ storeConfigured[c]

\* The sink was ended: the last call it received is end.
SinkEnded(c) == sink[c] # <<>> /\ sink[c][Len(sink[c])].op = "end"

\* The byte chunks the sink was handed, in order.
SinkChunks(c) ==
  LET withChunk == {i \in 1..Len(sink[c]) : sink[c][i].kind # "none"}
      RECURSIVE pick(_)
      pick(i) == IF i > Len(sink[c]) THEN <<>>
                 ELSE IF i \in withChunk THEN <<sink[c][i].data>> \o pick(i + 1)
                 ELSE pick(i + 1)
  IN  pick(1)

\* C1: for every stream of n >= 1 signed announcements of one type, of any
\* kind of iterable, createFile succeeds and readFile on the artifact
\* visits exactly the n input announcements, in stream order, with equal
\* field values.
C1_RoundTrip ==
  \A c \in Calls :
    (Writable(c) /\ Homogeneous(announcements[c])) =>
      /\ result[c].status \in {"pending", "ok"}
      /\ pc[c] = "readDone" => visited[c] = announcements[c].items

\* C2: in every createFile run that completes without error, every row
\* appended to the writer has the type the schema was selected from.
C2_RowsHaveSchemaType ==
  \A c \in Calls :
    result[c].status = "ok" =>
      \A i \in 1..Len(writer[c].rows) : writer[c].rows[i].dsnpType = dsnpType[c][1]

\* C3: for every stream with an element whose type differs from the first
\* element's, createFile fails with MixedTypeBatchError, and no element of
\* a type other than the first's is appended as a row.  (Stated for the
\* streams whose elements all have a DSNPType.)
C3_MixedTypeRejected ==
  \A c \in Calls :
    (/\ Writable(c)
     /\ ~Homogeneous(announcements[c])
     /\ \A i \in 1..Len(announcements[c].items) :
          announcements[c].items[i].dsnpType \in DSNPType) =>
      /\ \A i \in 1..Len(writer[c].rows) :
           writer[c].rows[i].dsnpType = announcements[c].items[1].dsnpType
      /\ Finished(c) => result[c].status = "MixedTypeBatchError"

\* C4: if the stream ends or raises before yielding its first element,
\* createFile fails, with EmptyBatchError when the stream ended and with
\* the stream's error when it raised, and store.putStream is never
\* called: nothing reaches the destination.
C4_NoFirstElementNoStoreWrite ==
  \A c \in Calls :
    (pc[c] # "idle" /\ announcements[c].items = <<>>) =>
      /\ pc[c] \in {"peek", "peekDone", "peekThrow", "failed"}
      /\ ~putStreamCalled[c]
      /\ sink[c] = <<>>
      /\ pc[c] = "failed" =>
           result[c].status =
             IF announcements[c].term = "end" THEN "EmptyBatchError" ELSE "StreamError"

\* C4 witness: a generator that raises at its first pull made createFile
\* fail with the stream's error.
C4_Witness ==
  \E c \in Calls :
    /\ announcements[c].items = <<>>
    /\ announcements[c].kind = "generator"
    /\ announcements[c].term = "raise"
    /\ result[c].status = "StreamError"

\* C5: whenever createFile fails with EmptyBatchError, the stream yielded
\* no element at all, the store write was not started and no byte reached
\* the sink.
C5_EmptyBatchMeansNothingYielded ==
  \A c \in Calls :
    result[c].status = "EmptyBatchError" =>
      /\ yielded[c] = 0
      /\ ~putStreamCalled[c]
      /\ sink[c] = <<>>

\* C6: the hash createFile returns is the keccak256 digest of the
\* concatenation, in order, of every byte chunk passed on to the sink,
\* the chunk of end(chunk) included, whatever its byte-array type.
C6_HashCoversSinkBytes ==
  \A c \in Calls :
    result[c].status = "ok" => result[c].hash = hex(SinkBytes(c))

\* C7: the wrapper passes every write and every end on to the underlying
\* sink exactly once, in order and with the same arguments, and returns
\* what the sink returned.
C7_WrapperForwards ==
  \A c \in Calls :
    /\ sink[c] = wrapperCalls[c]
    /\ lastResult[c].outer = lastResult[c].inner

\* C7 witness: the wrapper has passed on writes, the last of which the
\* sink answered with false, and an end that carried a Buffer.
C7_Witness ==
  \E c \in Calls :
    /\ Len(wrapperCalls[c]) >= 3
    /\ wrapperCalls[c][Len(wrapperCalls[c])].op = "end"
    /\ wrapperCalls[c][Len(wrapperCalls[c])].kind = "Buffer"
    /\ ~lastResult[c].inner

\* C8: two createFile calls whose encoders handed the same sequence of
\* byte chunks to their sinks return the same hash, whatever the
\* targetPath and the URL.
C8_SameBytesSameHash ==
  (/\ result[1].status = "ok"
   /\ result[2].status = "ok"
   /\ SinkChunks(1) = SinkChunks(2)) => result[1].hash = result[2].hash

\* C9: on every exit path of the write createFile started (success,
\* EmptyBatchError, MixedTypeBatchError) the Parquet writer is closed and
\* the sink is ended before createFile returns or throws.
C9_HandleReleasedOnEveryExit ==
  \A c \in Calls :
    (/\ Finished(c)
     /\ putStreamCalled[c]
     /\ result[c].status \in {"ok", "EmptyBatchError", "MixedTypeBatchError"}) =>
      writer[c].closed /\ SinkEnded(c)

\* The byte strings that are concatenations of some of the chunks call
\* c's sink was handed, in the order it was handed them.
OwnSinkMessages(c) ==
  LET chunks == SinkChunks(c)
      RECURSIVE sel(_, _)
      sel(i, mask) == IF i > Len(chunks) THEN <<>>
                      ELSE IF i \in mask THEN chunks[i] \o sel(i + 1, mask)
                      ELSE sel(i + 1, mask)
  IN  {sel(1, mask) : mask \in SUBSET (1..Len(chunks))}

\* A step that is not call c's leaves everything call c owns as it was.
OthersUntouched ==
  \A c \in Calls :
    pc'[c] = pc[c] /\ iter'[c] = iter[c] /\ writer'[c] = writer[c] =>
      /\ hashGenerator'[c] = hashGenerator[c]
      /\ sink'[c] = sink[c]
      /\ result'[c] = result[c]

\* C10: when two createFile calls run interleaved, the accumulator of
\* each is fed chunks of its own sink only, in order, each returns a hash
\* over bytes of its own sink only, and a step of one call changes
\* nothing of the other.
C10_OwnAccumulator ==
  /\ [](\A c \in Calls :
          /\ hashGenerator[c] \in OwnSinkMessages(c)
          /\ result[c].status = "ok" =>
               result[c].hash \in {hex(m) : m \in OwnSinkMessages(c)})
  /\ [][OthersUntouched]_vars

\* C10 witness: both calls returned, after writing different bytes to
\* different destinations.
C10_Witness ==
  /\ result[1].status = "ok"
  /\ result[2].status = "ok"
  /\ targetPath[1] # targetPath[2]
  /\ SinkBytes(1) # SinkBytes(2)

\* ---------------------------------------------------------------------
\* Canonical serialization (serialize)
\*
\* A string is the sequence of its UTF-16 code units.  An object is the
\* sequence of its own properties in insertion order, which is the order
\* `for ... in` visits them in when no key is an array index.

\* The property names of the messages.
Key ==
  [changeType |-> <<99, 104, 97, 110, 103, 101, 84, 121, 112, 101>>,
   contentHash |-> <<99, 111, 110, 116, 101, 110, 116, 72, 97, 115, 104>>,
   dsnpType |-> <<100, 115, 110, 112, 84, 121, 112, 101>>,
   emoji |-> <<101, 109, 111, 106, 105>>,
   fromId |-> <<102, 114, 111, 109, 73, 100>>,
   inReplyTo |-> <<105, 110, 82, 101, 112, 108, 121, 84, 111>>,
   objectId |-> <<111, 98, 106, 101, 99, 116, 73, 100>>,
   url |-> <<117, 114, 108>>,
   signature |-> <<115, 105, 103, 110, 97, 116, 117, 114, 101>>,
   announcementType |-> <<97, 110, 110, 111, 117, 110, 99, 101, 109, 101, 110, 116, 84, 121, 112, 101>>,
   createdAt |-> <<99, 114, 101, 97, 116, 101, 100, 65, 116>>,
   targetAnnouncementType |->
     <<116, 97, 114, 103, 101, 116, 65, 110, 110, 111, 117, 110, 99, 101, 109, 101, 110, 116, 84, 121, 112, 101>>,
   targetSignature |-> <<116, 97, 114, 103, 101, 116, 83, 105, 103, 110, 97, 116, 117, 114, 101>>]

\* n copies of code unit c.
Repeat(c, n) == [i \in 1..n |-> c]

\* The strings the model hands to the program: "1", "12", "2", "0x12345",
\* "0xab", "https://dsnp.org", "a", "hello", "dsnp://0123456789abcdef",
\* "dsnp://0123456789abcdef/0x1234", U+2764, "0x" and 64 hex digits,
\* "0x" and 130 hex digits, the same with 129 digits, with the letter g,
\* and in upper case, "http://fakestore.org/", " 2", "0x2", "2.0", " ".
Text ==
  [id1 |-> <<49>>,
   spaceTwo |-> <<32, 50>>,
   hexTwo |-> <<48, 120, 50>>,
   twoPointZero |-> <<50, 46, 48>>,
   space |-> <<32>>,
   id12 |-> <<49, 50>>,
   id2 |-> <<50>>,
   hash12345 |-> <<48, 120, 49, 50, 51, 52, 53>>,
   hashab |-> <<48, 120, 97, 98>>,
   dsnpOrg |-> <<104, 116, 116, 112, 115, 58, 47, 47, 100, 115, 110, 112, 46, 111, 114, 103>>,
   a |-> <<97>>,
   hello |-> <<104, 101, 108, 108, 111>>,
   userId |-> <<100, 115, 110, 112, 58, 47, 47, 48, 49, 50, 51, 52, 53, 54, 55, 56, 57, 97, 98, 99, 100, 101, 102>>,
   announcementURI |-> <<100, 115, 110, 112, 58, 47, 47, 48, 49, 50, 51, 52, 53, 54, 55, 56, 57, 97, 98, 99, 100, 101, 102, 47, 48, 120, 49, 50, 51, 52>>,
   heart |-> <<10084>>,
   hash |-> <<48, 120>> \o Repeat(97, 64),
   signature |-> <<48, 120>> \o Repeat(97, 130),
   signatureShort |-> <<48, 120>> \o Repeat(97, 129),
   signatureNotHex |-> <<48, 120>> \o Repeat(103, 130),
   signatureUpper |-> <<48, 88>> \o Repeat(65, 130),
   fakestore |-> <<104, 116, 116, 112, 58, 47, 47, 102, 97, 107, 101, 115, 116, 111, 114,
                   101, 46, 111, 114, 103, 47>>]

\* The arguments the factories are called with.
SerializeValues ==
  [fromIds |-> {Text.id1, Text.id12},
   urls |-> {Text.dsnpOrg, Text.a},
   hashes |-> {Text.hash12345, Text.hashab},
   targets |-> {Text.id2, Text.a}]

\* A property value: a string or a number.
StringValue(s) == [type |-> "string", s |-> s, n |-> 0]
NumberValue(n) == [type |-> "number", s |-> <<>>, n |-> n]
\* true or false, with the Number it converts to.
BooleanValue(b) == [type |-> "boolean", s |-> <<>>, n |-> IF b THEN 1 ELSE 0]
Property(k, v) == [key |-> k, value |-> v]

DSNPGraphChangeType == [Follow |-> 1, Unfollow |-> 2]

createBroadcastMessage(fromId, url, hash) ==
  << Property(Key.dsnpType, NumberValue(2)),
     Property(Key.contentHash, StringValue(hash)),
     Property(Key.fromId, StringValue(fromId)),
     Property(Key.url, StringValue(url)) >>

createReplyMessage(fromId, url, hash, inReplyTo) ==
  << Property(Key.dsnpType, NumberValue(3)),
     Property(Key.contentHash, StringValue(hash)),
     Property(Key.fromId, StringValue(fromId)),
     Property(Key.inReplyTo, StringValue(inReplyTo)),
     Property(Key.url, StringValue(url)) >>

createReactionMessage(fromId, emoji, inReplyTo) ==
  << Property(Key.dsnpType, NumberValue(4)),
     Property(Key.emoji, StringValue(emoji)),
     Property(Key.fromId, StringValue(fromId)),
     Property(Key.inReplyTo, StringValue(inReplyTo)) >>

createFollowGraphChangeMessage(fromId, followeeId) ==
  << Property(Key.fromId, StringValue(fromId)),
     Property(Key.dsnpType, NumberValue(1)),
     Property(Key.changeType, NumberValue(DSNPGraphChangeType.Follow)),
     Property(Key.objectId, StringValue(followeeId)) >>

createUnfollowGraphChangeMessage(fromId, followeeId) ==
  << Property(Key.fromId, StringValue(fromId)),
     Property(Key.dsnpType, NumberValue(1)),
     Property(Key.changeType, NumberValue(DSNPGraphChangeType.Unfollow)),
     Property(Key.objectId, StringValue(followeeId)) >>

createProfileMessage(fromId, url, hash) ==
  << Property(Key.dsnpType, NumberValue(5)),
     Property(Key.contentHash, StringValue(hash)),
     Property(Key.fromId, StringValue(fromId)),
     Property(Key.url, StringValue(url)) >>

RECURSIVE NumberToString(_)
\* A non-negative integer in a template literal: its decimal digits.
NumberToString(n) ==
  IF n < 10 THEN <<48 + n>> ELSE NumberToString(n \div 10) \o <<48 + (n % 10)>>

\* `${value}` for a property value.
TemplateString(v) == IF v.type = "number" THEN NumberToString(v.n) ELSE v.s

RECURSIVE StringLess(_, _)
\* a sorts before b in Array.prototype.sort's default order: by code units.
StringLess(a, b) ==
  IF Len(b) = 0 THEN FALSE
  ELSE IF Len(a) = 0 THEN TRUE
  ELSE IF a[1] # b[1] THEN a[1] < b[1]
  ELSE StringLess(Tail(a), Tail(b))

RECURSIVE SortedInsert(_, _)
SortedInsert(p, sorted) ==
  IF Len(sorted) = 0 THEN <<p>>
  ELSE IF StringLess(p.key, sorted[1].key) THEN <<p>> \o sorted
  ELSE <<sorted[1]>> \o SortedInsert(p, Tail(sorted))

RECURSIVE sortObject(_)
\* A new object with the same properties, inserted in ascending key order.
sortObject(obj) ==
  IF Len(obj) = 0 THEN <<>>
  ELSE SortedInsert(obj[Len(obj)], sortObject(SubSeq(obj, 1, Len(obj) - 1)))

RECURSIVE serialize_loop_delimited(_, _)
serialize_loop_delimited(sortedMessage, serialization) ==
  IF Len(sortedMessage) = 0 THEN serialization
  ELSE serialize_loop_delimited(Tail(sortedMessage),
         serialization \o sortedMessage[1].key \o <<58>>
                       \o TemplateString(sortedMessage[1].value))
RECURSIVE serialize_loop(_, _)
\* for (const key in sortedMessage) serialization = `${serialization}${key}${sortedMessage[key]}`
serialize_loop(sortedMessage, serialization) ==
  IF Len(sortedMessage) = 0 THEN serialization
  ELSE serialize_loop(Tail(sortedMessage),
         serialization \o sortedMessage[1].key
                       \o TemplateString(sortedMessage[1].value))

serialize_unsorted(message) == serialize_loop(message, <<>>)
serialize(message) == serialize_loop(sortObject(message), <<>>)

\* Everything a createFile or readFile call reads or writes.
batchVars == <<announcements, targetPath, storeConfigured, pc, iter, yielded,
               dsnpType, firstDsnpType, putStreamCalled, hashGenerator,
               wrapperCalls, sink, lastResult, writer, result, cursor,
               visited, readerClosed>>

Undefined == [type |-> "undefined", s |-> <<>>, n |-> 0]

PropertyNames ==
  {"announcementType", "fromId", "createdAt", "targetAnnouncementType",
   "targetSignature", "changeType", "objectId", "url", "contentHash",
   "inReplyTo", "emoji", "signature"}

\* The message serialize sees for an object the validators see: its own
\* properties, each under its key.
AnnouncementMessage(obj) ==
  LET names == <<"announcementType", "changeType", "contentHash", "createdAt", "emoji",
                 "fromId", "inReplyTo", "objectId", "signature", "targetAnnouncementType",
                 "targetSignature", "url">>
      own == SelectSeq(names, LAMBDA name : obj.fields[name] # Undefined)
  IN  [i \in 1..Len(own) |-> Property(Key[own[i]], obj.fields[own[i]])]

\* Broadcast announcements over a user id F, the content hashes "a" and
\* "afromId" F "url", the urls "a" and "fromId" F "urla", and the
\* announcement types 2 and "2".
BroadcastAnnouncements ==
  LET between == Key.fromId \o Text.userId \o Key.url
  IN  {[isRecord |-> TRUE,
        fields |-> [name \in PropertyNames |->
          CASE name = "announcementType" -> t
            [] name = "fromId" -> StringValue(Text.userId)
            [] name = "contentHash" -> StringValue(h)
            [] name = "url" -> StringValue(u)
            [] OTHER -> Undefined]] :
         t \in {NumberValue(2), StringValue(Text.id2)},
         h \in {Text.a, Text.a \o between},
         u \in {Text.a, between \o Text.a}}

\* The messages the factories build.
SerializeMessages ==
  {createBroadcastMessage(f, u, h) :
     <<f, u, h>> \in SerializeValues.fromIds \X SerializeValues.urls \X SerializeValues.hashes}
  \cup {createReplyMessage(f, u, h, r) :
     <<f, u, h, r>> \in SerializeValues.fromIds \X SerializeValues.urls \X SerializeValues.hashes \X SerializeValues.targets}
  \cup {createReactionMessage(f, e, r) :
     <<f, e, r>> \in SerializeValues.fromIds \X SerializeValues.urls \X SerializeValues.targets}
  \cup {createFollowGraphChangeMessage(f, o) :
     <<f, o>> \in SerializeValues.fromIds \X SerializeValues.targets}
  \cup {createUnfollowGraphChangeMessage(f, o) :
     <<f, o>> \in SerializeValues.fromIds \X SerializeValues.targets}
  \cup {createProfileMessage(f, u, h) :
     <<f, u, h>> \in SerializeValues.fromIds \X SerializeValues.urls \X SerializeValues.hashes}

\* The same properties inserted in another order.
Reorderings(m) ==
  { [i \in 1..Len(m) |-> m[Len(m) + 1 - i]], Tail(m) \o <<m[1]>> }

SerializeArguments ==
  {[message |-> m, other |-> o, objects |-> <<>>] : <<m, o>> \in
     {x \in SerializeMessages \X UNION {Reorderings(m) : m \in SerializeMessages} :
        x[2] \in Reorderings(x[1])}}
  \cup {[message |-> AnnouncementMessage(a), other |-> AnnouncementMessage(b),
         objects |-> <<a, b>>] : a, b \in BroadcastAnnouncements}

InitSerialize ==
  /\ NoBatch
  /\ NoContent
  /\ argument \in {<<a>> : a \in SerializeArguments}
  /\ returned = <<>>

\* serialize(message) and serialize(other); message is what the caller's
\* object holds after the call.
Serialize ==
  /\ Len(argument) = 1
  /\ returned = <<>>
  /\ returned' = <<[first |-> serialize(argument[1].message),
                    second |-> serialize(argument[1].other),
                    message |-> argument[1].message]>>
  /\ UNCHANGED <<batchVars, contentVars, argument>>

SpecSerialize == InitSerialize /\ [][Serialize]_vars

\* "contentHash0x12345dsnpType2fromId1url"
Text_expected == <<99, 111, 110, 116, 101, 110, 116, 72, 97, 115, 104, 48, 120,
                   49, 50, 51, 52, 53, 100, 115, 110, 112, 84, 121, 112, 101,
                   50, 102, 114, 111, 109, 73, 100, 49, 117, 114, 108>>

\* The indices of m's properties by ascending key.
AscendingKeys(m) ==
  CHOOSE p \in [1..Len(m) -> 1..Len(m)] :
    \A i, j \in 1..Len(m) : i < j => StringLess(m[p[i]].key, m[p[j]].key)

\* C11: serialize returns, for the keys in ascending lexicographic order,
\* the key followed by the stringified value, with nothing in between; the
\* discriminant is a field like the others, so a Broadcast with fromId "1",
\* url u and contentHash "0x12345" gives
\* "contentHash0x12345dsnpType2fromId1url" followed by u.
C11_SerializeIsSortedConcatenation ==
  Len(returned) = 1 =>
    LET m == argument[1].message
        p == AscendingKeys(m)
    IN /\ returned[1].first =
            Flatten([i \in 1..Len(m) |-> m[p[i]].key \o TemplateString(m[p[i]].value)])
       /\ \A u \in SerializeValues.urls :
            m = createBroadcastMessage(Text.id1, u, Text.hash12345)
              => returned[1].first = Text_expected \o u

C11_Witness ==
  /\ Len(returned) = 1
  /\ argument[1].message = createBroadcastMessage(Text.id1, Text.dsnpOrg, Text.hash12345)
  /\ returned[1].first = Text_expected \o Text.dsnpOrg

\* C12: two messages with the same key-to-value mapping serialize to the
\* same string whatever order their fields were inserted in, and the
\* caller's message is the same after the call as before it.
C12_SerializeDependsOnMappingOnly ==
  Len(returned) = 1 =>
    /\ argument[1].other \in Reorderings(argument[1].message)
         => returned[1].first = returned[1].second
    /\ returned[1].message = argument[1].message

C12_Witness ==
  /\ Len(returned) = 1
  /\ argument[1].message = createFollowGraphChangeMessage(Text.id1, Text.id2)
  /\ argument[1].other # argument[1].message
  /\ returned[1].first = returned[1].second

\* ---------------------------------------------------------------------
\* Schema selector as a lookup: getSchemaFor and getBloomFilterOptionsFor
\* applied to a discriminant.

MaxDiscriminant == 30

InitSchema ==
  /\ NoBatch
  /\ NoContent
  /\ argument \in {<<t>> : t \in 0..MaxDiscriminant}
  /\ returned = [schema |-> <<>>, options |-> <<>>]

GetSchemaFor ==
  /\ returned.schema = <<>>
  /\ returned' = [returned EXCEPT !.schema = <<getSchemaFor(argument[1])>>]
  /\ UNCHANGED <<batchVars, contentVars, argument>>

GetBloomFilterOptionsFor ==
  /\ returned.options = <<>>
  /\ returned' = [returned EXCEPT !.options = <<getBloomFilterOptionsFor(argument[1])>>]
  /\ UNCHANGED <<batchVars, contentVars, argument>>

SpecSchema == InitSchema /\ [][GetSchemaFor \/ GetBloomFilterOptionsFor]_vars

\* The fields of a message of each type, as its interface declares them.
MessageFields(t) == AnnouncementFields(t) \ {"dsnpType", "signature"}

\* The names of a schema's columns.
ColumnNames(schema) == {schema[i].name : i \in 1..Len(schema)}

\* C13: for each of the five types getSchemaFor returns a schema that
\* holds signature, the discriminant and every field of the type
\* (GraphChange: fromId, changeType, objectId; Broadcast and Profile:
\* fromId, url, contentHash; Reply: those and inReplyTo; Reaction: fromId,
\* emoji, inReplyTo), the discriminant and changeType as INT32 and every
\* other column as BYTE_ARRAY.
C13_SchemaHoldsEveryField ==
  (argument[1] \in DSNPType /\ Len(returned.schema) = 1) =>
    LET r == returned.schema[1]
    IN /\ r.error = "none"
       /\ {"signature", "dsnpType"} \cup MessageFields(argument[1]) \subseteq ColumnNames(r.schema)
       /\ \A i \in 1..Len(r.schema) :
            r.schema[i].type =
              IF r.schema[i].name \in {"dsnpType", "changeType"} THEN "INT32" ELSE "BYTE_ARRAY"

\* C14: for every discriminant outside the five types, 0 included,
\* getSchemaFor and getBloomFilterOptionsFor throw
\* InvalidAnnouncementTypeError and return nothing; so createFile on a
\* stream whose first element has such a type fails with that error
\* before store.putStream is called and before any byte reaches the sink.
C14_UnknownTypeFailsBeforeStoreWrite ==
  /\ \A t \in (0..MaxDiscriminant) \ DSNPType :
       /\ getSchemaFor(t) = [error |-> "InvalidAnnouncementTypeError", schema |-> <<>>]
       /\ getBloomFilterOptionsFor(t) =
            [error |-> "InvalidAnnouncementTypeError", bloomFilters |-> <<>>]
  /\ \A c \in Calls :
       (Len(dsnpType[c]) = 1 /\ dsnpType[c][1] \notin DSNPType) =>
         /\ pc[c] \in {"peek", "schema", "failed"}
         /\ ~putStreamCalled[c]
         /\ sink[c] = <<>>
         /\ pc[c] = "failed" => result[c].status = "InvalidAnnouncementTypeError"

C14_Witness ==
  \E c \in Calls :
    /\ dsnpType[c] = <<0>>
    /\ pc[c] = "failed"
    /\ result[c].status = "InvalidAnnouncementTypeError"
    /\ ~putStreamCalled[c]

\* C15: getBloomFilterOptionsFor returns, in this order, fromId for
\* GraphChange, Broadcast and Profile; fromId, inReplyTo for Reply; emoji,
\* fromId, inReplyTo for Reaction.  Every list holds fromId and every
\* listed column is a column of the same type's schema.
C15_BloomFilterColumnsPerType ==
  (argument[1] \in DSNPType /\ Len(returned.options) = 1) =>
    LET t == argument[1]
        r == returned.options[1]
    IN /\ r.error = "none"
       /\ r.bloomFilters =
            CASE t \in {1, 2, 5} -> <<"fromId">>
              [] t = 3 -> <<"fromId", "inReplyTo">>
              [] t = 4 -> <<"emoji", "fromId", "inReplyTo">>
       /\ "fromId" \in Range(r.bloomFilters)
       /\ Range(r.bloomFilters) \subseteq ColumnNames(getSchemaFor(t).schema)

C15_Witness ==
  /\ argument = <<4>>
  /\ returned.options =
       <<[error |-> "none", bloomFilters |-> <<"emoji", "fromId", "inReplyTo">>]>>

\* ---------------------------------------------------------------------
\* Validation (core/announcements/validation.ts)
\*
\* A value is undefined, a number or a string.  An input is a record with
\* a value for every property name (absent properties are undefined), or
\* something that is no record.


AnnouncementType ==
  [Tombstone |-> 0, GraphChange |-> 1, Broadcast |-> 2, Reply |-> 3,
   Reaction |-> 4, Profile |-> 5]

AnnouncementTypes == {AnnouncementType[k] : k \in DOMAIN AnnouncementType}

\* What a validator did: returned a boolean, or threw an error.
Returns(b) == [threw |-> FALSE, value |-> b, error |-> "none"]
Throws(e) == [threw |-> TRUE, value |-> FALSE, error |-> e]

isRecord(obj) == obj.isRecord
isString(v) == v.type = "string"
isNumber(v) == v.type = "number"

\* The strings of the model that are DSNP user ids and announcement URIs.
isDSNPUserId(v) == isString(v) /\ v.s \in {Text.userId}
isDSNPAnnouncementURI(v) == isString(v) /\ v.s \in {Text.announcementURI}

\* [0-9a-f] under the i flag.
IsHexDigit(c) == c \in (48..57) \cup (97..102) \cup (65..70)

SIGNATURE_HEX_DIGITS == 130

\* SIGNATURE_REGEX = /^0x[0-9a-f]{130}$/i
SIGNATURE_REGEX(s) ==
  /\ Len(s) >= 2
  /\ s[1] = 48
  /\ s[2] \in {120, 88}
  /\ Len(s) = 2 + SIGNATURE_HEX_DIGITS
  /\ \A i \in 3..Len(s) : IsHexDigit(s[i])

isValidSignature(v) == isString(v) /\ SIGNATURE_REGEX(v.s)

\* A code point as UTF-16 code units: a surrogate pair above U+FFFF.
EncodeCodePoint(cp) ==
  IF cp < 65536 THEN <<cp>>
  ELSE <<55296 + ((cp - 65536) \div 1024), 56320 + ((cp - 65536) % 1024)>>

\* String.fromCodePoint(...cps)
FromCodePoints(cps) == Flatten([i \in 1..Len(cps) |-> EncodeCodePoint(cps[i])])

RECURSIVE CodePoints(_)
\* The code points a regular expression with the u flag reads from a
\* string: a high surrogate followed by a low one is one code point, any
\* other code unit is a code point by itself.
CodePoints(s) ==
  IF Len(s) = 0 THEN <<>>
  ELSE IF /\ Len(s) >= 2
          /\ s[1] \in 55296..56319
          /\ s[2] \in 56320..57343
       THEN <<65536 + (s[1] - 55296) * 1024 + (s[2] - 56320)>>
            \o CodePoints(SubSeq(s, 3, Len(s)))
       ELSE <<s[1]>> \o CodePoints(Tail(s))

\* EMOJI_REGEX = /^[\u{2000}-\u{2BFF}\u{E000}-\u{FFFF}\u{1F000}-\u{FFFFF}]+$/u
EMOJI_REGEX(s) ==
  /\ Len(CodePoints(s)) > 0
  /\ \A i \in 1..Len(CodePoints(s)) :
       \/ CodePoints(s)[i] \in 8192..11263
       \/ CodePoints(s)[i] \in 57344..65535
       \/ CodePoints(s)[i] \in 126976..1048575

\* isValidEmoji of the module with EMOJI_REGEX.
isValidEmoji(v) == isString(v) /\ EMOJI_REGEX(v.s)

\* isValidEmoji of the module that loops over charCodeAt(i).
isValidEmoji_charCode(v) ==
  /\ isString(v)
  /\ \A i \in 1..Len(v.s) :
       ~ /\ ~(v.s[i] >= 8192 /\ v.s[i] <= 11263)
         /\ ~(v.s[i] >= 57344 /\ v.s[i] <= 65535)
         /\ ~(v.s[i] >= 126976 /\ v.s[i] <= 1114111)

\* StrWhiteSpaceChar: the WhiteSpace and LineTerminator code units.
StrWhiteSpaceChar ==
  {9, 10, 11, 12, 13, 32, 160, 5760, 8232, 8233, 8239, 8287, 12288, 65279} \cup (8192..8202)

\* The string without the white space at its two ends.
TrimString(s) ==
  LET others == {i \in 1..Len(s) : s[i] \notin StrWhiteSpaceChar}
  IN  IF others = {} THEN <<>>
      ELSE SubSeq(s, CHOOSE i \in others : \A j \in others : i <= j,
                     CHOOSE i \in others : \A j \in others : i >= j)

\* The value of a digit of a numeric literal, 99 for any other code unit.
DigitValue(c) ==
  IF c \in 48..57 THEN c - 48
  ELSE IF c \in 97..102 THEN c - 87
  ELSE IF c \in 65..70 THEN c - 55
  ELSE 99

\* Every code unit of s is a digit of the base.
IsDigits(s, base) == \A i \in 1..Len(s) : DigitValue(s[i]) < base

\* How many decimal digits s starts with.
LeadingDigits(s) ==
  IF IsDigits(s, 10) THEN Len(s)
  ELSE (CHOOSE i \in 1..Len(s) :
          DigitValue(s[i]) >= 10 /\ \A j \in 1..(i - 1) : DigitValue(s[j]) < 10) - 1

\* Digits without the zeros in front.
StripZeros(d) ==
  IF \A i \in 1..Len(d) : d[i] = 0 THEN <<>>
  ELSE SubSeq(d, CHOOSE i \in 1..Len(d) : d[i] # 0 /\ \A j \in 1..(i - 1) : d[j] = 0, Len(d))

\* The number the digits d spell in the base, or 10^9 if that is less.
DigitsValue[d \in Seq(0..15), base \in {2, 8, 10, 16}] ==
  IF Len(StripZeros(d)) > 30 THEN 10^9
  ELSE IF Len(d) = 0 THEN 0
  ELSE IF DigitsValue[SubSeq(d, 1, Len(d) - 1), base] > (10^9 - d[Len(d)]) \div base THEN 10^9
  ELSE DigitsValue[SubSeq(d, 1, Len(d) - 1), base] * base + d[Len(d)]

NotANumber ==
  [kind |-> "NaN", negative |-> FALSE, digits |-> <<>>, base |-> 10, exponent |-> 0]
InfiniteNumber(negative) ==
  [kind |-> "Infinity", negative |-> negative, digits |-> <<>>, base |-> 10, exponent |-> 0]
\* The number the digits spell in the base, times 10^exponent, negated if
\* negative.
FiniteNumber(negative, digits, base, exponent) ==
  [kind |-> "finite", negative |-> negative, digits |-> StripZeros(digits),
   base |-> base, exponent |-> exponent]

\* The digits the code units spell.
Digits(s) == [i \in 1..Len(s) |-> DigitValue(s[i])]

\* ExponentPart: e or E, an optional sign and digits.  The literal is the
\* digits times 10^(exponent - places).
StrExponentPart(negative, digits, places, rest, expDigits) ==
  IF Len(rest) = 0 THEN FiniteNumber(negative, Digits(digits), 10, 0 - places)
  ELSE IF ~(rest[1] \in {101, 69} /\ Len(expDigits) > 0 /\ IsDigits(expDigits, 10))
    THEN NotANumber
  ELSE IF rest[2] = 45
    THEN FiniteNumber(negative, Digits(digits), 10,
                      0 - DigitsValue[Digits(expDigits), 10] - places)
  ELSE FiniteNumber(negative, Digits(digits), 10, DigitsValue[Digits(expDigits), 10] - places)

\* The literal with the digits before and after the point, of which places
\* are after it, and the rest of the string: there must be a digit.
StrDecimalDigits(negative, digits, places, rest) ==
  IF Len(digits) = 0 THEN NotANumber
  ELSE StrExponentPart(negative, digits, places, rest,
                       SubSeq(rest, IF Len(rest) >= 2 /\ rest[2] \in {43, 45} THEN 3 ELSE 2,
                              Len(rest)))

\* The literal with the digits before the point and what follows the point,
\* or follows the digits if there is no point.
StrFraction(negative, whole, afterDot, hasPoint) ==
  StrDecimalDigits(negative,
                   IF hasPoint THEN whole \o SubSeq(afterDot, 1, LeadingDigits(afterDot))
                   ELSE whole,
                   IF hasPoint THEN LeadingDigits(afterDot) ELSE 0,
                   IF hasPoint THEN SubSeq(afterDot, LeadingDigits(afterDot) + 1, Len(afterDot))
                   ELSE afterDot)

\* The literal that starts with so many digits.
StrWhole(negative, s, whole) ==
  StrFraction(negative, SubSeq(s, 1, whole),
              IF whole < Len(s) /\ s[whole + 1] = 46 THEN SubSeq(s, whole + 2, Len(s))
              ELSE SubSeq(s, whole + 1, Len(s)),
              whole < Len(s) /\ s[whole + 1] = 46)

\* StrUnsignedDecimalLiteral: Infinity, or digits with an optional
\* fraction and an optional exponent.
StrUnsignedDecimalLiteral(s, negative) ==
  IF s = <<73, 110, 102, 105, 110, 105, 116, 121>> THEN InfiniteNumber(negative)
  ELSE StrWhole(negative, s, LeadingDigits(s))

\* StringToNumber: the mathematical value of the StringNumericLiteral the
\* string is, before it is rounded to a Number; NaN if it is none.
StringToNumber(str) ==
  LET s == TrimString(str)
      prefixed(marks) == Len(s) >= 2 /\ s[1] = 48 /\ s[2] \in marks
      nonDecimal(base) ==
        IF Len(s) > 2 /\ IsDigits(SubSeq(s, 3, Len(s)), base)
        THEN FiniteNumber(FALSE, Digits(SubSeq(s, 3, Len(s))), base, 0)
        ELSE NotANumber
  IN  IF Len(s) = 0 THEN FiniteNumber(FALSE, <<>>, 10, 0)
      ELSE IF prefixed({120, 88}) THEN nonDecimal(16)
      ELSE IF prefixed({111, 79}) THEN nonDecimal(8)
      ELSE IF prefixed({98, 66}) THEN nonDecimal(2)
      ELSE IF s[1] \in {43, 45} THEN StrUnsignedDecimalLiteral(Tail(s), s[1] = 45)
      ELSE StrUnsignedDecimalLiteral(s, FALSE)

\* 0.f <= 0.g for the decimal fractions with digits f and g.
FractionLeq(f, g) ==
  LET digit(d, i) == IF i <= Len(d) THEN d[i] ELSE 0
      differing == {i \in 1..(Len(f) + Len(g)) : digit(f, i) # digit(g, i)}
  IN  \A i \in differing : (\A j \in differing : i <= j) => digit(f, i) < digit(g, i)

\* The digits of 1 - 0.f, for a fraction 0.f that is not 0.
OneMinus(f) ==
  LET last == CHOOSE i \in 1..Len(f) : f[i] # 0 /\ \A j \in (i + 1)..Len(f) : f[j] = 0
  IN  [i \in 1..last |-> IF i = last THEN 10 - f[i] ELSE 9 - f[i]]

\* The decimal digits of 5 * d + c, for the decimal digits d.
TimesFive[d \in Seq(0..9), c \in 0..4] ==
  IF Len(d) = 0 THEN (IF c = 0 THEN <<>> ELSE <<c>>)
  ELSE Append(TimesFive[SubSeq(d, 1, Len(d) - 1), (5 * d[Len(d)] + c) \div 10],
              (5 * d[Len(d)] + c) % 10)

\* The decimal digits of 5^k.
PowerOfFive[k \in Nat] == IF k = 0 THEN <<1>> ELSE TimesFive[PowerOfFive[k - 1], 0]

\* The fraction digits of 2^-k, which is 5^k / 10^k.
TwoToMinus(k) == [i \in 1..(k - Len(PowerOfFive[k])) |-> 0] \o PowerOfFive[k]

\* The exponent of the greatest power of two that is no more than n.
Log2[n \in Nat] == IF n < 2 THEN 0 ELSE 1 + Log2[n \div 2]

\* The significant digits of 2^-1075, half the least positive Number: what
\* is no more than it rounds to 0.  323 zeros come before them.
HalfMinValue ==
  <<
     2, 4, 7, 0, 3, 2, 8, 2, 2, 9, 2, 0, 6, 2, 3, 2, 7, 2, 0, 8, 8, 2, 8, 4, 3, 9, 6, 4, 3, 4, 1, 1,
     0, 6, 8, 6, 1, 8, 2, 5, 2, 9, 9, 0, 1, 3, 0, 7, 1, 6, 2, 3, 8, 2, 2, 1, 2, 7, 9, 2, 8, 4, 1, 2,
     5, 0, 3, 3, 7, 7, 5, 3, 6, 3, 5, 1, 0, 4, 3, 7, 5, 9, 3, 2, 6, 4, 9, 9, 1, 8, 1, 8, 0, 8, 1, 7,
     9, 9, 6, 1, 8, 9, 8, 9, 8, 2, 8, 2, 3, 4, 7, 7, 2, 2, 8, 5, 8, 8, 6, 5, 4, 6, 3, 3, 2, 8, 3, 5,
     5, 1, 7, 7, 9, 6, 9, 8, 9, 8, 1, 9, 9, 3, 8, 7, 3, 9, 8, 0, 0, 5, 3, 9, 0, 9, 3, 9, 0, 6, 3, 1,
     5, 0, 3, 5, 6, 5, 9, 5, 1, 5, 5, 7, 0, 2, 2, 6, 3, 9, 2, 2, 9, 0, 8, 5, 8, 3, 9, 2, 4, 4, 9, 1,
     0, 5, 1, 8, 4, 4, 3, 5, 9, 3, 1, 8, 0, 2, 8, 4, 9, 9, 3, 6, 5, 3, 6, 1, 5, 2, 5, 0, 0, 3, 1, 9,
     3, 7, 0, 4, 5, 7, 6, 7, 8, 2, 4, 9, 2, 1, 9, 3, 6, 5, 6, 2, 3, 6, 6, 9, 8, 6, 3, 6, 5, 8, 4, 8,
     0, 7, 5, 7, 0, 0, 1, 5, 8, 5, 7, 6, 9, 2, 6, 9, 9, 0, 3, 7, 0, 6, 3, 1, 1, 9, 2, 8, 2, 7, 9, 5,
     5, 8, 5, 5, 1, 3, 3, 2, 9, 2, 7, 8, 3, 4, 3, 3, 8, 4, 0, 9, 3, 5, 1, 9, 7, 8, 0, 1, 5, 5, 3, 1,
     2, 4, 6, 5, 9, 7, 2, 6, 3, 5, 7, 9, 5, 7, 4, 6, 2, 2, 7, 6, 6, 4, 6, 5, 2, 7, 2, 8, 2, 7, 2, 2,
     0, 0, 5, 6, 3, 7, 4, 0, 0, 6, 4, 8, 5, 4, 9, 9, 9, 7, 7, 0, 9, 6, 5, 9, 9, 4, 7, 0, 4, 5, 4, 0,
     2, 0, 8, 2, 8, 1, 6, 6, 2, 2, 6, 2, 3, 7, 8, 5, 7, 3, 9, 3, 4, 5, 0, 7, 3, 6, 3, 3, 9, 0, 0, 7,
     9, 6, 7, 7, 6, 1, 9, 3, 0, 5, 7, 7, 5, 0, 6, 7, 4, 0, 1, 7, 6, 3, 2, 4, 6, 7, 3, 6, 0, 0, 9, 6,
     8, 9, 5, 1, 3, 4, 0, 5, 3, 5, 5, 3, 7, 4, 5, 8, 5, 1, 6, 6, 6, 1, 1, 3, 4, 2, 2, 3, 7, 6, 6, 6,
     7, 8, 6, 0, 4, 1, 6, 2, 1, 5, 9, 6, 8, 0, 4, 6, 1, 9, 1, 4, 4, 6, 7, 2, 9, 1, 8, 4, 0, 3, 0, 0,
     5, 3, 0, 0, 5, 7, 5, 3, 0, 8, 4, 9, 0, 4, 8, 7, 6, 5, 3, 9, 1, 7, 1, 1, 3, 8, 6, 5, 9, 1, 6, 4,
     6, 2, 3, 9, 5, 2, 4, 9, 1, 2, 6, 2, 3, 6, 5, 3, 8, 8, 1, 8, 7, 9, 6, 3, 6, 2, 3, 9, 3, 7, 3, 2,
     8, 0, 4, 2, 3, 8, 9, 1, 0, 1, 8, 6, 7, 2, 3, 4, 8, 4, 9, 7, 6, 6, 8, 2, 3, 5, 0, 8, 9, 8, 6, 3,
     3, 8, 8, 5, 8, 7, 9, 2, 5, 6, 2, 8, 3, 0, 2, 7, 5, 5, 9, 9, 5, 6, 5, 7, 5, 2, 4, 4, 5, 5, 5, 0,
     7, 2, 5, 5, 1, 8, 9, 3, 1, 3, 6, 9, 0, 8, 3, 6, 2, 5, 4, 7, 7, 9, 1, 8, 6, 9, 4, 8, 6, 6, 7, 9,
     9, 4, 9, 6, 8, 3, 2, 4, 0, 4, 9, 7, 0, 5, 8, 2, 1, 0, 2, 8, 5, 1, 3, 1, 8, 5, 4, 5, 1, 3, 9, 6,
     2, 1, 3, 8, 3, 7, 7, 2, 2, 8, 2, 6, 1, 4, 5, 4, 3, 7, 6, 9, 3, 4, 1, 2, 5, 3, 2, 0, 9, 8, 5, 9,
     1, 3, 2, 7, 6, 6, 7, 2, 3, 6, 3, 2, 8, 1, 2, 5
  >>

\* The Number nearest to x is the integer n (round to nearest, ties to
\* even), for 0 <= n < 10^9.
RoundsTo(x, n) ==
  LET digits == x.digits
      places == 0 - x.exponent
      whole  == IF Len(digits) > places THEN SubSeq(digits, 1, Len(digits) - places)
                ELSE <<>>
      fraction == IF Len(digits) > places
                  THEN SubSeq(digits, Len(digits) - places + 1, Len(digits))
                  ELSE [i \in 1..(places - Len(digits)) |-> 0] \o digits
      above  == TwoToMinus(53 - Log2[n])
      below  == TwoToMinus(IF n = 2^Log2[n] THEN 54 - Log2[n] ELSE 53 - Log2[n])
  IN  IF x.kind # "finite" THEN FALSE
      ELSE IF Len(digits) = 0 THEN n = 0
      ELSE IF x.negative /\ n # 0 THEN FALSE
      ELSE IF x.exponent >= 0
        THEN x.exponent <= 9
             /\ DigitsValue[digits \o [i \in 1..x.exponent |-> 0], x.base] = n
      ELSE IF places - Len(digits) > 323 THEN n = 0
      ELSE IF StripZeros(fraction) = <<>> THEN DigitsValue[whole, 10] = n
      ELSE IF n = 0
        THEN Len(whole) = 0
             /\ FractionLeq(fraction, [i \in 1..323 |-> 0] \o HalfMinValue)
      ELSE \/ DigitsValue[whole, 10] = n /\ FractionLeq(fraction, above)
           \/ DigitsValue[whole, 10] = n - 1 /\ FractionLeq(OneMinus(fraction), below)

\* v == n with n a number: a string is converted to a Number first, and
\* so is a boolean.
LooseEquals(v, n) ==
  CASE v.type = "number" -> v.n = n
    [] v.type = "string" -> RoundsTo(StringToNumber(v.s), n)
    [] v.type = "boolean" -> v.n = n
    [] OTHER -> FALSE

isGraphChangeType(v) ==
  IF ~isNumber(v) THEN FALSE
  ELSE LooseEquals(v, DSNPGraphChangeType.Follow) \/ LooseEquals(v, DSNPGraphChangeType.Unfollow)

isAnnouncementType(v) ==
  IF ~isNumber(v) THEN FALSE
  ELSE \E t \in AnnouncementTypes : LooseEquals(v, t)


\* obj["name"]
Get(obj, name) == obj.fields[name]

isTombstoneAnnouncement_noSignatureCheck(obj) ==
  IF ~isRecord(obj) THEN Throws("Announcement is not an object")
  ELSE IF ~LooseEquals(Get(obj, "announcementType"), AnnouncementType.Tombstone)
    THEN Throws("Announcement is not tombstone")
  ELSE IF ~isDSNPUserId(Get(obj, "fromId")) THEN Throws("Announcement has invalid fromId")
  ELSE IF ~isNumber(Get(obj, "createdAt")) THEN Throws("Announcement has invalid createdAt")
  ELSE IF ~isAnnouncementType(Get(obj, "targetAnnouncementType"))
    THEN Throws("Announcement has invalid target type")
  ELSE IF ~(Get(obj, "targetAnnouncementType").n \in
              {AnnouncementType.Broadcast, AnnouncementType.Reply, AnnouncementType.Reaction})
    THEN Throws("Announcement has invalid target type")
  ELSE Returns(TRUE)
isTombstoneAnnouncement(obj) ==
  IF ~isRecord(obj) THEN Throws("Announcement is not an object")
  ELSE IF ~LooseEquals(Get(obj, "announcementType"), AnnouncementType.Tombstone)
    THEN Throws("Announcement is not tombstone")
  ELSE IF ~isDSNPUserId(Get(obj, "fromId")) THEN Throws("Announcement has invalid fromId")
  ELSE IF ~isNumber(Get(obj, "createdAt")) THEN Throws("Announcement has invalid createdAt")
  ELSE IF ~isAnnouncementType(Get(obj, "targetAnnouncementType"))
    THEN Throws("Announcement has invalid target type")
  ELSE IF ~(Get(obj, "targetAnnouncementType").n \in
              {AnnouncementType.Broadcast, AnnouncementType.Reply, AnnouncementType.Reaction})
    THEN Throws("Announcement has invalid target type")
  ELSE IF ~isValidSignature(Get(obj, "targetSignature"))
    THEN Throws("Announcement has invalid target signature")
  ELSE Returns(TRUE)

isGraphChangeAnnouncement(obj) ==
  IF ~isRecord(obj) THEN Returns(FALSE)
  ELSE IF ~LooseEquals(Get(obj, "announcementType"), AnnouncementType.GraphChange)
    THEN Returns(FALSE)
  ELSE IF ~isDSNPUserId(Get(obj, "fromId")) THEN Returns(FALSE)
  ELSE IF ~isGraphChangeType(Get(obj, "changeType")) THEN Returns(FALSE)
  ELSE IF ~isDSNPUserId(Get(obj, "objectId")) THEN Returns(FALSE)
  ELSE IF ~isNumber(Get(obj, "createdAt")) THEN Returns(FALSE)
  ELSE Returns(TRUE)

isBroadcastAnnouncement(obj) ==
  IF ~isRecord(obj) THEN Returns(FALSE)
  ELSE IF ~LooseEquals(Get(obj, "announcementType"), AnnouncementType.Broadcast)
    THEN Returns(FALSE)
  ELSE IF ~isDSNPUserId(Get(obj, "fromId")) THEN Returns(FALSE)
  ELSE IF ~isString(Get(obj, "url")) THEN Returns(FALSE)
  ELSE IF ~isString(Get(obj, "contentHash")) THEN Returns(FALSE)
  ELSE Returns(TRUE)

isReplyAnnouncement(obj) ==
  IF ~isRecord(obj) THEN Returns(FALSE)
  ELSE IF ~LooseEquals(Get(obj, "announcementType"), AnnouncementType.Reply)
    THEN Returns(FALSE)
  ELSE IF ~isDSNPUserId(Get(obj, "fromId")) THEN Returns(FALSE)
  ELSE IF ~isString(Get(obj, "url")) THEN Returns(FALSE)
  ELSE IF ~isString(Get(obj, "contentHash")) THEN Returns(FALSE)
  ELSE IF ~isDSNPAnnouncementURI(Get(obj, "inReplyTo")) THEN Returns(FALSE)
  ELSE Returns(TRUE)

isReactionAnnouncement(obj) ==
  IF ~isRecord(obj) THEN Returns(FALSE)
  ELSE IF ~LooseEquals(Get(obj, "announcementType"), AnnouncementType.Reaction)
    THEN Returns(FALSE)
  ELSE IF ~isDSNPUserId(Get(obj, "fromId")) THEN Returns(FALSE)
  ELSE IF ~isValidEmoji(Get(obj, "emoji")) THEN Returns(FALSE)
  ELSE IF ~isDSNPAnnouncementURI(Get(obj, "inReplyTo")) THEN Returns(FALSE)
  ELSE Returns(TRUE)

isProfileAnnouncement(obj) ==
  IF ~isRecord(obj) THEN Returns(FALSE)
  ELSE IF ~LooseEquals(Get(obj, "announcementType"), AnnouncementType.Profile)
    THEN Returns(FALSE)
  ELSE IF ~isDSNPUserId(Get(obj, "fromId")) THEN Returns(FALSE)
  ELSE IF ~isString(Get(obj, "url")) THEN Returns(FALSE)
  ELSE IF ~isString(Get(obj, "contentHash")) THEN Returns(FALSE)
  ELSE Returns(TRUE)

\* validators[t](obj)
validators(t, obj) ==
  CASE t = AnnouncementType.Tombstone -> isTombstoneAnnouncement(obj)
    [] t = AnnouncementType.GraphChange -> isGraphChangeAnnouncement(obj)
    [] t = AnnouncementType.Broadcast -> isBroadcastAnnouncement(obj)
    [] t = AnnouncementType.Reply -> isReplyAnnouncement(obj)
    [] t = AnnouncementType.Reaction -> isReactionAnnouncement(obj)
    [] t = AnnouncementType.Profile -> isProfileAnnouncement(obj)
    [] OTHER -> Throws("TypeError")

isAnnouncement(obj) ==
  IF ~isRecord(obj) THEN Returns(FALSE)
  ELSE IF ~isAnnouncementType(Get(obj, "announcementType")) THEN Returns(FALSE)
  ELSE validators(Get(obj, "announcementType").n, obj)

isSignedAnnouncement(obj) ==
  IF ~isRecord(obj) THEN Returns(FALSE)
  ELSE IF ~isValidSignature(Get(obj, "signature")) THEN Returns(FALSE)
  ELSE isAnnouncement(obj)

\* What the promise of isSignatureAuthorizedTo settles to: true, false,
\* or a rejection with what isMessageSignatureAuthorizedTo throws or with
\* what a call it awaits on the provider rejects with.
AuthorizationOutcomes ==
  {Returns(TRUE), Returns(FALSE), Throws("MissingContract"), Throws("MissingProvider"),
   Throws("ProviderError")}

\* isValidAnnouncement, with what the awaited isSignatureAuthorizedTo
\* settles to: a rejection of it rejects the promise of isValidAnnouncement.
isValidAnnouncement(obj, authorized) ==
  IF isSignedAnnouncement(obj).threw THEN isSignedAnnouncement(obj)
  ELSE IF ~isSignedAnnouncement(obj).value THEN Returns(FALSE)
  ELSE IF authorized.threw THEN authorized
  ELSE IF ~authorized.value THEN Returns(FALSE)
  ELSE Returns(TRUE)


\* A well-formed signed announcement of type t: the value of each property.
WellFormedValue(t, name) ==
  CASE name = "announcementType" -> NumberValue(t)
    [] name = "signature" -> StringValue(Text.signature)
    [] name = "fromId" -> StringValue(Text.userId)
    [] name = "createdAt" /\ t \in {0, 1} -> NumberValue(1)
    [] name = "targetAnnouncementType" /\ t = 0 -> NumberValue(2)
    [] name = "targetSignature" /\ t = 0 -> StringValue(Text.signature)
    [] name = "changeType" /\ t = 1 -> NumberValue(1)
    [] name = "objectId" /\ t = 1 -> StringValue(Text.userId)
    [] name = "url" /\ t \in {2, 3, 5} -> StringValue(Text.dsnpOrg)
    [] name = "contentHash" /\ t \in {2, 3, 5} -> StringValue(Text.hash)
    [] name = "inReplyTo" /\ t \in {3, 4} -> StringValue(Text.announcementURI)
    [] name = "emoji" /\ t = 4 -> StringValue(Text.heart)
    [] OTHER -> Undefined

WellFormed(t) ==
  [isRecord |-> TRUE, fields |-> [name \in PropertyNames |-> WellFormedValue(t, name)]]

\* Something that is no record: null, a string, a number.
NotARecord == [isRecord |-> FALSE, fields |-> [name \in PropertyNames |-> Undefined]]

\* The properties a well-formed announcement of type t has.
OwnProperties(t) == {name \in PropertyNames : WellFormedValue(t, name) # Undefined}

\* Other values a caller may put in a property.
OtherValues(name) ==
  CASE name = "announcementType" ->
         {NumberValue(k) : k \in 0..7}
         \cup {StringValue(Text.id2), StringValue(Text.spaceTwo), StringValue(Text.hexTwo),
               StringValue(Text.twoPointZero), StringValue(Text.space),
               BooleanValue(TRUE), Undefined}
    [] name \in {"fromId", "objectId", "inReplyTo"} ->
         {Undefined, StringValue(Text.hello)}
    [] name = "createdAt" -> {Undefined, StringValue(Text.id1)}
    [] name = "targetAnnouncementType" ->
         {NumberValue(1), NumberValue(3), NumberValue(7), Undefined}
    [] name \in {"targetSignature", "signature"} ->
         {Undefined, StringValue(Text.signatureShort),
          StringValue(Text.signatureNotHex), StringValue(Text.signatureUpper)}
    [] name = "changeType" -> {NumberValue(2), NumberValue(3), Undefined}
    [] name = "url" -> {Undefined, NumberValue(1)}
    [] name = "contentHash" -> {StringValue(Text.hello), NumberValue(5), Undefined}
    [] name = "emoji" -> {StringValue(<<>>), StringValue(Text.a), Undefined}
    [] OTHER -> {Undefined}

MaxFaults == 2

RECURSIVE Replaced(_, _, _)
\* The objects got from those of S by replacing at most k of the
\* properties in names.
Replaced(S, names, k) ==
  IF k = 0 THEN S
  ELSE S \cup Replaced(
         UNION {{[o EXCEPT !.fields[name] = v] : v \in OtherValues(name)} :
                  <<o, name>> \in S \X names},
         names, k - 1)

InitValidate ==
  LET ValidationInputs ==
        {NotARecord}
        \cup UNION {Replaced({WellFormed(t)}, OwnProperties(t), MaxFaults) : t \in AnnouncementTypes}
  IN  /\ NoBatch
      /\ NoContent
      /\ argument \in {<<obj>> : obj \in ValidationInputs}
      /\ returned = <<>>

\* One of the six validators, called on the object directly.
CallValidator ==
  /\ returned = <<>>
  /\ \E t \in AnnouncementTypes :
       returned' = <<[fn |-> "validator", type |-> t,
                      result |-> validators(t, argument[1])]>>
  /\ UNCHANGED <<batchVars, contentVars, argument>>

CallIsAnnouncement ==
  /\ returned = <<>>
  /\ returned' = <<[fn |-> "isAnnouncement", type |-> -1,
                    result |-> isAnnouncement(argument[1])]>>
  /\ UNCHANGED <<batchVars, contentVars, argument>>

CallIsSignedAnnouncement ==
  /\ returned = <<>>
  /\ returned' = <<[fn |-> "isSignedAnnouncement", type |-> -1,
                    result |-> isSignedAnnouncement(argument[1])]>>
  /\ UNCHANGED <<batchVars, contentVars, argument>>

CallIsValidAnnouncement ==
  /\ returned = <<>>
  /\ \E authorized \in AuthorizationOutcomes :
       returned' = <<[fn |-> "isValidAnnouncement", type |-> -1,
                      result |-> isValidAnnouncement(argument[1], authorized)]>>
  /\ UNCHANGED <<batchVars, contentVars, argument>>

SpecValidate ==
  InitValidate /\ [][CallValidator \/ CallIsAnnouncement \/ CallIsSignedAnnouncement
                       \/ CallIsValidAnnouncement]_vars

\* The object under validation and what the call on it gave.
Called(fn) == Len(returned) = 1 /\ returned[1].fn = fn

\* C18: isSignedAnnouncement, isAnnouncement and isValidAnnouncement
\* return a boolean for every input: a malformed object of any
\* discriminant, Tombstone included, gives false and never an exception.
\* The validation raises nothing of its own: the one rejection left to
\* isValidAnnouncement is that of the authorisation check it awaits.
C18_ValidationNeverThrows ==
  (Called("isSignedAnnouncement") \/ Called("isAnnouncement") \/ Called("isValidAnnouncement"))
    => (returned[1].result.threw => /\ Called("isValidAnnouncement")
                                    /\ returned[1].result \in AuthorizationOutcomes)


\* The object's discriminant is a number that names one of the six types.
KnownDiscriminant(obj) ==
  /\ isNumber(Get(obj, "announcementType"))
  /\ Get(obj, "announcementType").n \in 0..5

\* C16, as stated: isAnnouncement picks the validator by the discriminant
\* and, for a discriminant that is none of the enumerated types, fails
\* with an error instead of returning a result.
C16_UnknownTypeRaisesError ==
  (Called("isAnnouncement") /\ isRecord(argument[1]) /\ ~KnownDiscriminant(argument[1]))
    => returned[1].result.threw

\* The messages of AnnouncementError that name what failed.
FieldErrors ==
  {"Announcement is not an object", "Announcement is not tombstone",
   "Announcement has invalid fromId", "Announcement has invalid createdAt",
   "Announcement has invalid target type",
   "Announcement has invalid target signature"}

\* C17, as stated: each of the six validators reports the first failing
\* check with an error that names what failed.
C17_FailureNamesField ==
  (Called("validator") /\ returned[1].result # Returns(TRUE)) =>
    /\ returned[1].result.threw
    /\ returned[1].result.error \in FieldErrors

\* "0x" and hex digits, len code units in all.
IsFixedLengthHex(v, len) ==
  /\ isString(v)
  /\ Len(v.s) = len
  /\ SubSeq(v.s, 1, 2) \in {<<48, 120>>, <<48, 88>>}
  /\ \A i \in 3..Len(v.s) : IsHexDigit(v.s[i])

\* C19, as stated: the Broadcast, Reply and Profile validators accept
\* only a contentHash that is a hex string of the fixed length, and the
\* Tombstone validator only a targetSignature that is one.
C19_HashesAreFixedLengthHex ==
  (Called("validator") /\ returned[1].result = Returns(TRUE)) =>
    /\ returned[1].type \in {2, 3, 5} =>
         IsFixedLengthHex(Get(argument[1], "contentHash"), Len(Text.hash))
    /\ returned[1].type = 0 =>
         IsFixedLengthHex(Get(argument[1], "targetSignature"), Len(Text.signature))

\* C19, amended: the Broadcast, Reply and Profile validators accept only
\* if contentHash is a string, of any length and content; the Tombstone
\* validator accepts only a targetSignature of "0x" and 130 hex digits.
C19_ContentHashIsAnyString ==
  (Called("validator") /\ returned[1].result = Returns(TRUE)) =>
    /\ returned[1].type \in {2, 3, 5} => isString(Get(argument[1], "contentHash"))
    /\ returned[1].type = 0 =>
         IsFixedLengthHex(Get(argument[1], "targetSignature"), Len(Text.signature))

C19_Witness ==
  /\ Called("validator")
  /\ returned[1].type = 2
  /\ Get(argument[1], "contentHash") = StringValue(Text.hello)
  /\ returned[1].result = Returns(TRUE)

\* ---------------------------------------------------------------------
\* The two emoji checks, on the same strings

MaxEmojiLen == 2

\* Code points at and around the ends of the three ranges, a letter, and
\* a low surrogate that stands alone.
EmojiCodePoints ==
  {65, 8191, 8192, 11263, 11264, 57343, 57344, 65535, 65536, 126975, 126976,
   128512, 1048575, 1048576, 1114111}

InitEmoji ==
  LET EmojiInputs ==
        {StringValue(FromCodePoints(cps)) : cps \in SeqsUpTo(EmojiCodePoints, MaxEmojiLen)}
        \cup {Undefined, NumberValue(1)}
  IN  /\ NoBatch
      /\ NoContent
      /\ argument \in {<<v>> : v \in EmojiInputs}
      /\ returned = [regex |-> <<>>, charCode |-> <<>>]

\* The Reaction validator of the module with EMOJI_REGEX, on a Reaction
\* that is well formed but for its emoji.
ValidateReactionEmoji ==
  /\ returned.regex = <<>>
  /\ returned' = [returned EXCEPT !.regex =
       <<isReactionAnnouncement([WellFormed(4) EXCEPT !.fields["emoji"] = argument[1]]).value>>]
  /\ UNCHANGED <<batchVars, contentVars, argument>>

\* The emoji check of the module that loops over charCodeAt(i).
ValidateEmojiCharCode ==
  /\ returned.charCode = <<>>
  /\ returned' = [returned EXCEPT !.charCode = <<isValidEmoji_charCode(argument[1])>>]
  /\ UNCHANGED <<batchVars, contentVars, argument>>

SpecEmoji == InitEmoji /\ [][ValidateReactionEmoji \/ ValidateEmojiCharCode]_vars

\* v is a non-empty string whose code points all lie in U+2000-U+2BFF,
\* U+E000-U+FFFF or U+1F000-last.
EmojiInRanges(v, last) ==
  /\ isString(v)
  /\ Len(v.s) > 0
  /\ \A i \in 1..Len(CodePoints(v.s)) :
       LET cp == CodePoints(v.s)[i]
       IN (8192 <= cp /\ cp <= 11263) \/ (57344 <= cp /\ cp <= 65535)
            \/ (126976 <= cp /\ cp <= last)

\* C20: an emoji is accepted exactly when it is a non-empty string whose
\* every code point lies in U+2000-U+2BFF, U+E000-U+FFFF or U+1F000 up to
\* the end of the implementation's last range; this holds for both
\* implementations of isValidEmoji, which accept the same strings.
C20_EmojiChecksAgree ==
  (Len(returned.regex) = 1 /\ Len(returned.charCode) = 1) =>
    /\ returned.regex[1] = EmojiInRanges(argument[1], 1048575)
    /\ returned.charCode[1] = EmojiInRanges(argument[1], 1114111)
    /\ EmojiInRanges(argument[1], 1048575) => returned.charCode[1] = returned.regex[1]

\* ---------------------------------------------------------------------
\* readFile and includes

\* C21: readFile calls the callback once per row, in cursor order, stops
\* when the cursor is exhausted, and closes the reader exactly once on
\* every run, a run in which the callback raises included.
C21_ReaderClosedOnEveryRun ==
  \A c \in Calls :
    /\ pc[c] \in {"read", "readEnd", "readDone", "readFailed"} =>
         visited[c] = SubSeq(ReaderRows(c), 1, cursor[c])
    /\ pc[c] = "readRow" => visited[c] = SubSeq(ReaderRows(c), 1, cursor[c] - 1)
    /\ pc[c] \in {"readEnd", "readDone"} => visited[c] = ReaderRows(c)
    /\ pc[c] \in {"readDone", "readFailed"} => readerClosed[c] = 1
    /\ readerClosed[c] <= 1


\* The most bloom-filter blocks a reader of the pure specification holds
\* for a column.
MaxBlocks == 2

\* Calls of includes: the reader's blocks per column, the column, the item.
InitIncludes ==
  LET IncludesArguments ==
        LET columns == {"fromId", "inReplyTo"}
        IN  {[bloomFilterData |-> d, column |-> col, item |-> i] :
               d \in UNION {[cs -> SeqsUpTo(SUBSET Ids, MaxBlocks)] : cs \in SUBSET columns},
               col \in columns, i \in Ids}
  IN  /\ NoBatch
      /\ NoContent
      /\ argument \in IncludesArguments
      /\ returned = <<>>

Includes ==
  /\ returned = <<>>
  /\ returned' = <<includes(argument.bloomFilterData, argument.column, argument.item)>>
  /\ UNCHANGED <<batchVars, contentVars, argument>>

SpecIncludes == InitIncludes /\ [][Includes]_vars

\* C22: includes returns true exactly when at least one block the reader
\* holds for the column reports the item as possibly present, and false
\* when the reader holds no block for the column.
C22_IncludesIsOrOverBlocks ==
  returned # <<>> =>
    LET d == argument.bloomFilterData
        held == argument.column \in DOMAIN d
    IN  /\ returned[1] =
             (held /\ \E i \in DOMAIN d[argument.column] :
                        argument.item \in d[argument.column][i])
        /\ (~held \/ d[argument.column] = <<>>) => returned[1] = FALSE

\* A call on a reader with two blocks for the column where only the second
\* block reports the item.
C22_Witness ==
  /\ returned = <<TRUE>>
  /\ argument.column \in DOMAIN argument.bloomFilterData
  /\ Len(argument.bloomFilterData[argument.column]) = 2
  /\ argument.item \notin argument.bloomFilterData[argument.column][1]
  /\ argument.item \in argument.bloomFilterData[argument.column][2]


\* C23: on a batch createFile wrote under the schema and the
\* bloom-filter spec of type T, includes returns true for every column of
\* T's bloom-filter spec and every value a written row holds in that
\* column; for other values it may return true or false.
C23_NoFalseNegatives ==
  (returned # <<>> /\ argument # <<>>) =>
    LET c == argument[1].reader
        column == argument[1].column
        rows == writer[c].rows
    IN  (/\ column \in Range(BloomFilterColumns(dsnpType[c][1]))
         /\ \E i \in 1..Len(rows) : rows[i][column] = argument[1].item)
          => returned[1] = TRUE

\* A batch of Reply rows was written and opened; includes finds the
\* inReplyTo a written row holds.
C23_Witness ==
  /\ pc[1] = "included"
  /\ dsnpType[1] = <<3>>
  /\ argument = <<[reader |-> 1, column |-> "inReplyTo", item |-> 41]>>
  /\ \E i \in 1..Len(writer[1].rows) : writer[1].rows[i].inReplyTo = 41
  /\ ReaderRows(1) # <<>>
  /\ returned = <<TRUE>>


\* ---------------------------------------------------------------------
\* Keccak-256 as js-sha3 computes it for a string

\* The value as a tuple whose elements are computed.
Evaluated(s) == SubSeq(s, 1, Len(s))

\* The UTF-8 bytes of a code point.
Utf8Bytes(point) ==
  IF point < 128 THEN <<point>>
  ELSE IF point < 2048 THEN <<192 + (point \div 64), 128 + (point % 64)>>
  ELSE IF point < 65536
    THEN <<224 + (point \div 4096), 128 + ((point \div 64) % 64), 128 + (point % 64)>>
  ELSE <<240 + (point \div 262144), 128 + ((point \div 4096) % 64),
         128 + ((point \div 64) % 64), 128 + (point % 64)>>

\* The code unit is a surrogate, of either half.
IsSurrogate(c) == c \in 55296..57343

\* How many surrogates stand in a row right before the i-th code unit.
SurrogatesBefore(s, i) ==
  LET others == {j \in 1..(i - 1) : ~IsSurrogate(s[j])}
  IN  IF others = {} THEN i - 1
      ELSE i - 1 - (CHOOSE j \in others : \A k \in others : k <= j)

\* The bytes js-sha3 hashes for a string: UTF-8, where any surrogate
\* takes the code unit after it, whatever it is, as its second half (and 0
\* at the end of the string).
Utf8(s) ==
  Flatten([i \in 1..Len(s) |->
    IF SurrogatesBefore(s, i) % 2 = 1 THEN <<>>
    ELSE IF IsSurrogate(s[i])
      THEN Utf8Bytes(65536 + (s[i] % 1024) * 1024
                       + (IF i < Len(s) THEN s[i + 1] % 1024 ELSE 0))
    ELSE Utf8Bytes(s[i])])

\* Keccak-f[1600]: the state is 1600 bits, lane (x, y) at bits
\* 64 * (5 * y + x) + 1 and on, least significant first.
RotationOffsets ==
  << <<0, 36, 3, 41, 18>>, <<1, 44, 10, 45, 2>>, <<62, 6, 43, 15, 61>>,
     <<28, 55, 25, 21, 56>>, <<27, 20, 39, 8, 14>> >>

\* The bits set in the round constant of each of the 24 rounds.
RoundConstants ==
  << {0}, {1, 7, 15}, {1, 3, 7, 15, 63}, {15, 31, 63}, {0, 1, 3, 7, 15}, {0, 31},
     {0, 7, 15, 31, 63}, {0, 3, 15, 63}, {1, 3, 7}, {3, 7}, {0, 3, 15, 31}, {1, 3, 31},
     {0, 1, 3, 7, 15, 31}, {0, 1, 3, 7, 63}, {0, 3, 7, 15, 63}, {0, 1, 15, 63},
     {1, 15, 63}, {7, 63}, {1, 3, 15}, {1, 3, 31, 63}, {0, 7, 15, 31, 63}, {7, 15, 63},
     {0, 31}, {3, 15, 31, 63} >>

Bit(x, y, z) == 64 * (5 * y + x) + z + 1

\* One round: theta, rho and pi, chi, iota.
Round(s, round) ==
  LET C == Evaluated([i \in 1..320 |->
             LET x == (i - 1) \div 64
                 z == (i - 1) % 64
             IN  (s[Bit(x, 0, z)] + s[Bit(x, 1, z)] + s[Bit(x, 2, z)]
                    + s[Bit(x, 3, z)] + s[Bit(x, 4, z)]) % 2])
      theta == Evaluated([i \in 1..1600 |->
             LET x == ((i - 1) \div 64) % 5
                 z == (i - 1) % 64
             IN  (s[i] + C[64 * ((x + 4) % 5) + z + 1]
                       + C[64 * ((x + 1) % 5) + ((z + 63) % 64) + 1]) % 2])
      rhoPi == Evaluated([i \in 1..1600 |->
             LET X == ((i - 1) \div 64) % 5
                 Y == (i - 1) \div 320
                 z == (i - 1) % 64
                 x == (X + 3 * Y) % 5
             IN  theta[Bit(x, X, (z + 64 - RotationOffsets[x + 1][X + 1]) % 64)]])
  IN  Evaluated([i \in 1..1600 |->
        LET X == ((i - 1) \div 64) % 5
            Y == (i - 1) \div 320
            z == (i - 1) % 64
            chi == rhoPi[i] + (1 - rhoPi[Bit((X + 1) % 5, Y, z)]) * rhoPi[Bit((X + 2) % 5, Y, z)]
        IN  (chi + (IF i <= 64 /\ z \in RoundConstants[round] THEN 1 ELSE 0)) % 2])

\* The rounds from this one to the last.
Permute[s \in [1..1600 -> {0, 1}], round \in 1..25] ==
  IF round = 25 THEN s ELSE Permute[Round(s, round), round + 1]

RECURSIVE Absorb(_, _)
\* The state after the blocks of 136 bytes are taken in, one by one.
Absorb(s, bytes) ==
  IF Len(bytes) = 0 THEN s
  ELSE Absorb(Permute[Evaluated([i \in 1..1600 |->
                        IF i <= 1088
                        THEN (s[i] + ((bytes[((i - 1) \div 8) + 1] \div (2 ^ ((i - 1) % 8))) % 2)) % 2
                        ELSE s[i]]), 1],
              SubSeq(bytes, 137, Len(bytes)))

\* The padding of Keccak: a 1 bit, zeros, and a 1 bit that ends a block.
Padded(bytes) ==
  LET n == 136 - (Len(bytes) % 136)
  IN  bytes \o [i \in 1..n |-> (IF i = 1 THEN 1 ELSE 0) + (IF i = n THEN 128 ELSE 0)]

\* A lower-case hexadecimal digit.
HexDigit(d) == IF d < 10 THEN 48 + d ELSE 87 + d

\* Keccak-256 of a string, as 64 hexadecimal digits.
Keccak256Hex(content) ==
  LET s == Absorb([i \in 1..1600 |-> 0], Padded(Utf8(content)))
  IN  Evaluated([i \in 1..64 |->
        LET top == 8 * ((i + 1) \div 2) - (IF i % 2 = 1 THEN 0 ELSE 4)
        IN  HexDigit(8 * s[top] + 4 * s[top - 1] + 2 * s[top - 2] + s[top - 3])])

\* The URL a string is parsed to (URL standard), for the URLs of TestStore

\* The scalar values the URL parser receives for a string: a high
\* surrogate and the low one after it are one value, a surrogate that
\* stands alone is U+FFFD.
ScalarValues(s) ==
  Flatten([i \in 1..Len(s) |->
    IF s[i] \in 56320..57343 /\ i > 1 /\ s[i - 1] \in 55296..56319 THEN <<>>
    ELSE IF s[i] \in 55296..56319 /\ i < Len(s) /\ s[i + 1] \in 56320..57343
      THEN <<65536 + (s[i] - 55296) * 1024 + (s[i + 1] - 56320)>>
    ELSE IF IsSurrogate(s[i]) THEN <<65533>>
    ELSE <<s[i]>>])

\* An upper-case hexadecimal digit.
UpperHexDigit(d) == IF d < 10 THEN 48 + d ELSE 55 + d

\* The percent-encode sets of the URL parser of the runtime, but for the
\* C0 controls and the code points above U+007E, which are in every set.
PathPercentEncodeSet == {32, 34, 35, 60, 62, 63, 96, 123, 125}
SpecialQueryPercentEncodeSet == {32, 34, 35, 60, 62, 39}
FragmentPercentEncodeSet == {32, 34, 60, 62, 96}

\* UTF-8 percent-encode each scalar value that is in the set.
PercentEncode(points, encodeSet) ==
  Flatten([i \in 1..Len(points) |->
    IF points[i] < 32 \/ points[i] > 126 \/ points[i] \in encodeSet
    THEN LET bytes == Utf8Bytes(points[i])
         IN  Flatten([k \in 1..Len(bytes) |->
               <<37, UpperHexDigit(bytes[k] \div 16), UpperHexDigit(bytes[k] % 16)>>])
    ELSE <<points[i]>>])

\* The elements of a set of numbers, in ascending order.
Ascending(S) ==
  [k \in 1..Cardinality(S) |-> CHOOSE i \in S : Cardinality({j \in S : j < i}) = k - 1]

\* The pieces of s between the code units that are marks.
Split(s, marks) ==
  LET at == Ascending({i \in 1..Len(s) : s[i] \in marks})
  IN  [k \in 1..(Len(at) + 1) |->
        SubSeq(s, IF k = 1 THEN 1 ELSE at[k - 1] + 1,
                  IF k = Len(at) + 1 THEN Len(s) ELSE at[k] - 1)]

\* The single-dot and the double-dot path segments: ".", "%2e", "%2E" and
\* their pairs.
SingleDotSegments == {<<46>>, <<37, 50, 101>>, <<37, 50, 69>>}
DoubleDotSegments == {a \o b : a \in SingleDotSegments, b \in SingleDotSegments}

\* The path of the URL after the path state has read the segments: a
\* double-dot segment removes the last segment of the path, a single-dot
\* segment adds nothing, and either of them in the last place leaves an
\* empty segment.
PathOf(segments) ==
  LET n == Len(segments)
      double(i) == segments[i] \in DoubleDotSegments
      plain(i)  == ~double(i) /\ segments[i] \notin SingleDotSegments
      kept == {i \in 1..n :
                 /\ plain(i)
                 /\ \A j \in (i + 1)..n :
                      Cardinality({k \in (i + 1)..j : double(k)})
                        <= Cardinality({k \in (i + 1)..j : plain(k)})}
  IN  [k \in 1..Cardinality(kept) |-> segments[Ascending(kept)[k]]]
      \o (IF plain(n) THEN <<>> ELSE << <<>> >>)

\* What the URL parser reads of the input's end: the C0 controls and the
\* spaces at the end are dropped, then every tab and newline.
NotTabOrNewline(c) == c \notin {9, 10, 13}
WithoutTrailingSpace(points) ==
  LET others == {i \in 1..Len(points) : points[i] > 32}
  IN  IF others = {} THEN <<>>
      ELSE SubSeq(points, 1, CHOOSE i \in others : \A j \in others : j <= i)

\* new URL(`http://fakestore.org/${targetPath}`).toString(): the path,
\* the query and the fragment the parser finds in targetPath, each
\* percent-encoded, after the origin.
FakestoreURL(path) ==
  LET input == SelectSeq(WithoutTrailingSpace(ScalarValues(path)), NotTabOrNewline)
      beforeFragment == Split(input, {35})[1]
      fragment == SubSeq(input, Len(beforeFragment) + 2, Len(input))
      beforeQuery == Split(beforeFragment, {63})[1]
      query == SubSeq(beforeFragment, Len(beforeQuery) + 2, Len(beforeFragment))
      segments == PathOf(Split(beforeQuery, {47, 92}))
  IN  SubSeq(Text.fakestore, 1, Len(Text.fakestore) - 1)
      \o Flatten([k \in 1..Len(segments) |->
                   <<47>> \o PercentEncode(segments[k], PathPercentEncodeSet)])
      \o (IF Len(beforeQuery) < Len(beforeFragment)
          THEN <<63>> \o PercentEncode(query, SpecialQueryPercentEncodeSet) ELSE <<>>)
      \o (IF Len(beforeFragment) < Len(input)
          THEN <<35>> \o PercentEncode(fragment, FragmentPercentEncodeSet) ELSE <<>>)

\* ---------------------------------------------------------------------
\* Signing (messages.ts) and content publishing (content.ts)

\* signer.signMessage(text) of the signer with this address: a signature
\* binds the signer and the text signed.
signMessage(signer, text) == [type |-> "signature", signer |-> signer, text |-> text]

\* ethers.utils.verifyMessage(text, signature): the signer's address if
\* the signature is over text, another address (0) otherwise.
verifyMessage(text, signature) ==
  IF signature.text = text THEN signature.signer ELSE 0

\* { ...message, signature }
WithSignature(message, signature) ==
  IF \E i \in 1..Len(message) : message[i].key = Key.signature
  THEN [i \in 1..Len(message) |->
         IF message[i].key = Key.signature THEN Property(Key.signature, signature)
         ELSE message[i]]
  ELSE Append(message, Property(Key.signature, signature))

\* sign, up to its await: requireGetSigner throws when no signer is
\* configured, else signer.signMessage is called on serialize(message)
\* and the value names that call.
sign(message, opts) ==
  IF opts.signer = <<>> THEN Throws("MissingSignerConfigError")
  ELSE Returns([signer |-> opts.signer[1], text |-> serialize(message)])

recoverPublicKey(message, signature) == verifyMessage(serialize(message), signature)

\* message[key] = value by the holder of the message object.
Assigned(message, key, value) ==
  [i \in 1..Len(message) |->
    IF message[i].key = key THEN Property(key, value) ELSE message[i]]

\* The contents the calls of the content specification publish, and their
\* digests, computed once.
HashedContents == <<Text.a, Text.hello>>
Digests == Evaluated([i \in 1..Len(HashedContents) |-> Keccak256Hex(HashedContents[i])])

\* keccak256(content) of js-sha3: the Keccak-256 digest of the string's
\* UTF-8 bytes, in hexadecimal.
keccak256(content) ==
  IF \E i \in 1..Len(HashedContents) : HashedContents[i] = content
  THEN Digests[CHOOSE i \in 1..Len(HashedContents) : HashedContents[i] = content]
  ELSE Keccak256Hex(content)

\* TestStore.put: this.store[targetPath] = content, which adds no property
\* under the key "__proto__"; the URL returned.
put(store, path, content) ==
  [store |-> IF path = <<95, 95, 112, 114, 111, 116, 111, 95, 95>> THEN store
             ELSE [k \in DOMAIN store \cup {path} |->
                    IF k = path THEN content ELSE store[k]],
   uri |-> FakestoreURL(path)]

\* What a call has done when it first gives up control: it threw, and its
\* promise is rejected, or it called store.put and awaits the URL.
Rejected(e, store) ==
  [threw |-> TRUE, error |-> e, store |-> store, currentFromId |-> <<>>,
   contentHash |-> <<>>, uri |-> <<>>]
AwaitingPut(currentFromId, contentHash, stored) ==
  [threw |-> FALSE, error |-> "none", store |-> stored.store,
   currentFromId |-> <<currentFromId>>, contentHash |-> <<contentHash>>,
   uri |-> <<stored.uri>>]

\* contentOptions: .valid is what activityPub.isValid, isValidReply or
\* isValidProfile finds for the object created from the options, .content
\* what activityPub.serialize gives for it.
\* broadcast, up to its first await.
broadcast(contentOptions, opts, store) ==
  IF ~contentOptions.valid THEN Rejected("InvalidActivityPubOpts", store)
  ELSE IF opts.currentFromId = <<>> THEN Rejected("MissingFromIdConfigError", store)
  ELSE IF ~opts.store THEN Rejected("MissingStoreConfigError", store)
  ELSE LET contentHash == keccak256(contentOptions.content)
       IN  AwaitingPut(opts.currentFromId[1], contentHash,
                       put(store, contentHash, contentOptions.content))

\* validateDSNPMessageId: "0x" and 64 hex digits.
validateDSNPMessageId(id) ==
  /\ Len(id) = 66
  /\ SubSeq(id, 1, 2) = <<48, 120>>
  /\ \A i \in 3..Len(id) : id[i] \in (48..57) \cup (97..102)

\* reply, up to its first await.
reply(contentOptions, inReplyTo, opts, store) ==
  IF ~validateDSNPMessageId(inReplyTo) THEN Rejected("InvalidInReplyTo", store)
  ELSE IF ~contentOptions.valid THEN Rejected("InvalidActivityPubOpts", store)
  ELSE IF opts.currentFromId = <<>> THEN Rejected("MissingFromIdConfigError", store)
  ELSE IF ~opts.store THEN Rejected("MissingStoreConfigError", store)
  ELSE LET contentHash == keccak256(contentOptions.content)
       IN  AwaitingPut(opts.currentFromId[1], contentHash,
                       put(store, contentHash, contentOptions.content))

\* profile, up to its first await.
profile(contentOptions, opts, store) ==
  IF ~contentOptions.valid THEN Rejected("InvalidActivityPubOpts", store)
  ELSE IF opts.currentFromId = <<>> THEN Rejected("MissingFromIdConfigError", store)
  ELSE IF ~opts.store THEN Rejected("MissingStoreConfigError", store)
  ELSE LET contentHash == keccak256(contentOptions.content)
       IN  AwaitingPut(opts.currentFromId[1], contentHash,
                       put(store, contentHash, contentOptions.content))

message_swapped(call) ==
  CASE call.fn = "broadcast" ->
         createBroadcastMessage(call.currentFromId[1], call.contentHash[1], call.uri[1])
    [] call.fn = "reply" ->
         createReplyMessage(call.currentFromId[1], call.contentHash[1], call.uri[1],
                            call.inReplyTo)
    [] call.fn = "profile" ->
         createProfileMessage(call.currentFromId[1], call.contentHash[1], call.uri[1])
    [] call.fn = "react" ->
         createReactionMessage(call.currentFromId[1], call.emoji, call.inReplyTo)
\* const message: the message a call builds from its locals, once it has
\* the URL of the put (react awaits no put).
message_built(call) ==
  CASE call.fn = "broadcast" ->
         createBroadcastMessage(call.currentFromId[1], call.uri[1], call.contentHash[1])
    [] call.fn = "reply" ->
         createReplyMessage(call.currentFromId[1], call.uri[1], call.contentHash[1],
                            call.inReplyTo)
    [] call.fn = "profile" ->
         createProfileMessage(call.currentFromId[1], call.uri[1], call.contentHash[1])
    [] call.fn = "react" ->
         createReactionMessage(call.currentFromId[1], call.emoji, call.inReplyTo)

\* The most calls of the content specification.
MaxContentCalls == 2

\* The arguments of the calls of the content specification.
ContentArguments ==
  [options |-> {[valid |-> TRUE, content |-> Text.a], [valid |-> TRUE, content |-> Text.hello],
                [valid |-> FALSE, content |-> Text.a]},
   targets |-> {Text.hash, Text.a},
   messages |-> {createBroadcastMessage(Text.id1, Text.dsnpOrg, Text.hash12345),
                 createFollowGraphChangeMessage(Text.id1, Text.id2),
                 createReactionMessage(Text.id1, Text.heart, Text.hash)},
   configs |-> [currentFromId : {<<>>, <<Text.id1>>}, store : BOOLEAN,
                signer : {<<>>, <<1>>, <<2>>}, provider : {<<>>}]]

\* A call as it starts: its arguments, the configuration it is made
\* under, the store it finds, and no local set.  message is the message
\* object, which its holder may write to, and passed what it held when it
\* was handed to sign.
Started(fn, contentOptions, emoji, inReplyTo, message) ==
  [fn |-> fn, contentOptions |-> contentOptions, emoji |-> emoji, inReplyTo |-> inReplyTo,
   message |-> message, passed |-> message, opts |-> config, before |-> testStore,
   pc |-> "start",
   currentFromId |-> <<>>, contentHash |-> <<>>, uri |-> <<>>, signing |-> <<>>,
   settled |-> <<>>, outcome |-> <<>>, recovered |-> <<>>]

\* The call with what its synchronous part did: rejected, or waiting for
\* the URL of store.put.
AtFirstAwait(call, did) ==
  IF did.threw
  THEN [call EXCEPT !.pc = "done", !.outcome = <<Throws(did.error)>>]
  ELSE [call EXCEPT !.pc = "put", !.currentFromId = did.currentFromId,
                    !.contentHash = did.contentHash, !.uri = did.uri]

\* await messages.sign(message, opts): sign runs up to its own await.  The
\* call then waits for signer.signMessage, or for the promise sign
\* rejected.
AwaitingSign(call, message) ==
  LET called == sign(message, config)
  IN  IF called.threw
      THEN [call EXCEPT !.message = message, !.passed = message, !.pc = "sign",
                        !.settled = <<called>>]
      ELSE [call EXCEPT !.message = message, !.passed = message, !.pc = "signMessage",
                        !.signing = <<called.value>>]

InitContent ==
  /\ NoBatch
  /\ argument = <<>>
  /\ returned = <<>>
  /\ config \in ContentArguments.configs
  /\ testStore = <<>>
  /\ contentCalls = <<>>
  /\ microtasks = <<>>

\* A call of broadcast, reply or profile runs to its first await.  A call
\* that reached it has written the store; the continuation after the put,
\* whose promise is resolved, is queued.
Broadcast ==
  /\ Len(contentCalls) < MaxContentCalls
  /\ \E contentOptions \in ContentArguments.options :
       LET did == broadcast(contentOptions, config, testStore)
       IN  /\ contentCalls' = Append(contentCalls,
                AtFirstAwait(Started("broadcast", contentOptions, <<>>, <<>>, <<>>), did))
           /\ testStore' = did.store
           /\ microtasks' = IF did.threw THEN microtasks
                            ELSE Append(microtasks, Len(contentCalls) + 1)
  /\ UNCHANGED <<batchVars, argument, returned, config>>

Reply ==
  /\ Len(contentCalls) < MaxContentCalls
  /\ \E contentOptions \in ContentArguments.options, inReplyTo \in ContentArguments.targets :
       LET did == reply(contentOptions, inReplyTo, config, testStore)
       IN  /\ contentCalls' = Append(contentCalls,
                AtFirstAwait(Started("reply", contentOptions, <<>>, inReplyTo, <<>>), did))
           /\ testStore' = did.store
           /\ microtasks' = IF did.threw THEN microtasks
                            ELSE Append(microtasks, Len(contentCalls) + 1)
  /\ UNCHANGED <<batchVars, argument, returned, config>>

Profile ==
  /\ Len(contentCalls) < MaxContentCalls
  /\ \E contentOptions \in ContentArguments.options :
       LET did == profile(contentOptions, config, testStore)
       IN  /\ contentCalls' = Append(contentCalls,
                AtFirstAwait(Started("profile", contentOptions, <<>>, <<>>, <<>>), did))
           /\ testStore' = did.store
           /\ microtasks' = IF did.threw THEN microtasks
                            ELSE Append(microtasks, Len(contentCalls) + 1)
  /\ UNCHANGED <<batchVars, argument, returned, config>>

\* A call of react: requireGetCurrentFromId, the message, and sign up to
\* its await.
React ==
  /\ Len(contentCalls) < MaxContentCalls
  /\ \E inReplyTo \in ContentArguments.targets :
       LET call == Started("react", [valid |-> FALSE, content |-> <<>>], Text.heart,
                           inReplyTo, <<>>)
           awaiting == AwaitingSign([call EXCEPT !.currentFromId = config.currentFromId],
                         message_built([call EXCEPT !.currentFromId = config.currentFromId]))
       IN  IF config.currentFromId = <<>>
           THEN /\ contentCalls' = Append(contentCalls,
                     [call EXCEPT !.pc = "done",
                                  !.outcome = <<Throws("MissingFromIdConfigError")>>])
                /\ UNCHANGED microtasks
           ELSE /\ contentCalls' = Append(contentCalls, awaiting)
                /\ microtasks' = IF awaiting.pc = "sign"
                                 THEN Append(microtasks, Len(contentCalls) + 1)
                                 ELSE microtasks
  /\ UNCHANGED <<batchVars, argument, returned, config, testStore>>

\* A call of sign: it is rejected at once without a signer, else it waits
\* for signer.signMessage.
Sign ==
  /\ Len(contentCalls) < MaxContentCalls
  /\ \E message \in ContentArguments.messages :
       LET call == Started("sign", [valid |-> FALSE, content |-> <<>>], <<>>, <<>>, message)
           awaiting == AwaitingSign(call, message)
       IN  contentCalls' = Append(contentCalls,
             IF awaiting.pc = "sign"
             THEN [call EXCEPT !.pc = "done", !.outcome = awaiting.settled]
             ELSE awaiting)
  /\ UNCHANGED <<batchVars, argument, returned, config, testStore, microtasks>>

\* The continuation c is the next microtask.
Resumes(c) == microtasks # <<>> /\ Head(microtasks) = c

\* broadcast, reply and profile after await store.put: the message is
\* built and sign is called, under the configuration as it is now.
AfterPut(c) ==
  /\ Resumes(c) /\ contentCalls[c].pc = "put"
  /\ LET awaiting == AwaitingSign(contentCalls[c], message_built(contentCalls[c]))
     IN  /\ contentCalls' = [contentCalls EXCEPT ![c] = awaiting]
         /\ microtasks' = IF awaiting.pc = "sign" THEN Append(Tail(microtasks), c)
                          ELSE Tail(microtasks)
  /\ UNCHANGED <<batchVars, argument, returned, config, testStore>>

\* The signer settles the promise of signMessage: with the signature, or
\* with an error of its own.  The continuation of sign is queued.
SignMessageSettles(c) ==
  /\ c \in DOMAIN contentCalls
  /\ contentCalls[c].pc = "signMessage" /\ contentCalls[c].settled = <<>>
  /\ \E settled \in {Returns(signMessage(contentCalls[c].signing[1].signer,
                                         contentCalls[c].signing[1].text)),
                     Throws("SignerError")} :
       contentCalls' = [contentCalls EXCEPT ![c].settled = <<settled>>]
  /\ microtasks' = Append(microtasks, c)
  /\ UNCHANGED <<batchVars, argument, returned, config, testStore>>

\* While sign awaits the signer, the caller of sign, who holds the message
\* object, writes to it: message.fromId = "2".  The message a content
\* function builds is a local no caller holds.
CallerWritesMessage(c) ==
  /\ c \in DOMAIN contentCalls
  /\ contentCalls[c].fn = "sign" /\ contentCalls[c].pc = "signMessage"
  /\ contentCalls[c].message = contentCalls[c].passed
  /\ contentCalls' = [contentCalls EXCEPT ![c].message =
                        Assigned(@, Key.fromId, StringValue(Text.id2))]
  /\ UNCHANGED <<batchVars, argument, returned, config, testStore, microtasks>>

\* sign after await signer.signMessage: it returns { ...message,
\* signature }, spreading the message object as it is by now, or is
\* rejected with the signer's error.  That ends a call of sign; a call
\* that awaits sign has its continuation queued.
AfterSignMessage(c) ==
  /\ Resumes(c) /\ contentCalls[c].pc = "signMessage"
  /\ LET call == contentCalls[c]
         signed == IF call.settled[1].threw THEN call.settled[1]
                   ELSE Returns(WithSignature(call.message, call.settled[1].value))
     IN  IF call.fn = "sign"
         THEN /\ contentCalls' = [contentCalls EXCEPT ![c].pc = "done",
                                                      ![c].outcome = <<signed>>]
              /\ microtasks' = Tail(microtasks)
         ELSE /\ contentCalls' = [contentCalls EXCEPT ![c].pc = "sign",
                                                      ![c].settled = <<signed>>]
              /\ microtasks' = Append(Tail(microtasks), c)
  /\ UNCHANGED <<batchVars, argument, returned, config, testStore>>

\* broadcast, reply, react and profile after await messages.sign: return
\* signedMessage, or the rejection of sign.
AfterSign(c) ==
  /\ Resumes(c) /\ contentCalls[c].pc = "sign"
  /\ contentCalls' = [contentCalls EXCEPT ![c].pc = "done",
                                          ![c].outcome = contentCalls[c].settled]
  /\ microtasks' = Tail(microtasks)
  /\ UNCHANGED <<batchVars, argument, returned, config, testStore>>

\* recoverPublicKey on the caller's message object and the signature sign
\* attached.
RecoverPublicKey(c) ==
  /\ c \in DOMAIN contentCalls
  /\ contentCalls[c].fn = "sign" /\ contentCalls[c].pc = "done"
  /\ ~contentCalls[c].outcome[1].threw /\ contentCalls[c].recovered = <<>>
  /\ LET signed == contentCalls[c].outcome[1].value
     IN  contentCalls' = [contentCalls EXCEPT ![c].recovered =
           <<recoverPublicKey(contentCalls[c].message, signed[Len(signed)].value)>>]
  /\ UNCHANGED <<batchVars, argument, returned, config, testStore, microtasks>>

\* The caller removes the signer from the configuration the calls read.
RemoveSigner ==
  /\ config.signer # <<>>
  /\ config' = [config EXCEPT !.signer = <<>>]
  /\ UNCHANGED <<batchVars, argument, returned, testStore, contentCalls, microtasks>>

SpecContent ==
  InitContent /\ [][Broadcast \/ Reply \/ React \/ Profile \/ Sign \/ RemoveSigner
                      \/ \E c \in 1..MaxContentCalls :
                           AfterPut(c) \/ SignMessageSettles(c) \/ CallerWritesMessage(c)
                             \/ AfterSignMessage(c) \/ AfterSign(c)
                             \/ RecoverPublicKey(c)]_vars


\* The value a message holds under a key.
Field(message, key) ==
  message[CHOOSE i \in 1..Len(message) : message[i].key = key].value

\* The calls of one of the functions that have ended.
EndedCalls(fns) ==
  {c \in DOMAIN contentCalls : contentCalls[c].fn \in fns /\ contentCalls[c].pc = "done"}

\* C24: sign returns the fields of the message it was passed, each with
\* its value, plus one added field, signature, the signer's signature over
\* serialize(message) of the unsigned message; recoverPublicKey of the
\* unsigned message and that signature is the signer's address; with no
\* signer configured sign fails with the missing-signer error and returns
\* no message.  (A signer that rejects the request makes sign fail with
\* the signer's error.)
C24_SignAddsOnlySignature ==
  \A c \in EndedCalls({"sign"}) :
    LET call    == contentCalls[c]
        outcome == call.outcome[1]
        signed  == outcome.value
    IN  IF call.opts.signer = <<>>
        THEN outcome = Throws("MissingSignerConfigError")
        ELSE IF call.settled = <<Throws("SignerError")>>
        THEN outcome = Throws("SignerError")
        ELSE /\ ~outcome.threw
             /\ Len(signed) = Len(call.passed) + 1
             /\ SubSeq(signed, 1, Len(call.passed)) = call.passed
             /\ signed[Len(signed)].key = Key.signature
             /\ signed[Len(signed)].value =
                  signMessage(call.opts.signer[1], serialize(call.passed))
             /\ call.recovered # <<>> => call.recovered = <<call.opts.signer[1]>>

\* C28: a broadcast, reply or profile call that fails with an error leaves
\* the content store as it was before the call: what the store holds when
\* the call has failed was there before the call or was put by another
\* call.
C28_FailedCallLeavesStore ==
  \A c \in EndedCalls({"broadcast", "reply", "profile"}) :
    contentCalls[c].outcome[1].threw =>
      \A k \in DOMAIN testStore :
        \/ k \in DOMAIN contentCalls[c].before /\ contentCalls[c].before[k] = testStore[k]
        \/ \E d \in DOMAIN contentCalls : d # c /\ contentCalls[d].contentHash = <<k>>

\* C29: for every message broadcast, reply or profile returns, the store
\* holds the serialized content under the message's contentHash, which is
\* the keccak256 of that content, and the message's url is the URI the
\* store returned for the put; every key of the store is the hash of what
\* it holds, so calls with the same content write the same key and bytes.
C29_StoredUnderContentHash ==
  \A c \in EndedCalls({"broadcast", "reply", "profile"}) :
    ~contentCalls[c].outcome[1].threw =>
      LET returnedMessage == contentCalls[c].outcome[1].value
          content == contentCalls[c].contentOptions.content
          hash    == Field(returnedMessage, Key.contentHash).s
      IN  /\ hash = keccak256(content)
          /\ hash \in DOMAIN testStore
          /\ testStore[hash] = content
          /\ Field(returnedMessage, Key.url).s = put(contentCalls[c].before, hash, content).uri
          /\ \A k \in DOMAIN testStore : k = keccak256(testStore[k])
          /\ hash \in DOMAIN contentCalls[c].before =>
               contentCalls[c].before[hash] = testStore[hash]

\* A profile call returns a message for content an earlier call stored.
C29_Witness ==
  \E c \in EndedCalls({"profile"}) :
    /\ ~contentCalls[c].outcome[1].threw
    /\ keccak256(contentCalls[c].contentOptions.content) \in DOMAIN contentCalls[c].before
    /\ Field(contentCalls[c].outcome[1].value, Key.url).s
         = Text.fakestore \o keccak256(contentCalls[c].contentOptions.content)

\* C30: every signed message reply or react returns has an inReplyTo that
\* is a valid DSNP message identifier.
C30_InReplyToIsValidated ==
  \A c \in EndedCalls({"reply", "react"}) :
    ~contentCalls[c].outcome[1].threw =>
      validateDSNPMessageId(Field(contentCalls[c].outcome[1].value, Key.inReplyTo).s)


\* ---------------------------------------------------------------------
\* Contracts: isMessageSignatureAuthorizedTo and getContractAddress

\* The highest block number of the chains of the specification, and the
\* most migration logs a provider holds.
MaxBlock == 2
MaxLogs == 3

\* provider.getBlock(blockTag): <<the block>>, or <<>> for a block the
\* chain does not have.  A chain is its head's number and, per block, the
\* addresses the identity contract authorizes at that block.
getBlock(chain, blockTag) ==
  IF blockTag.kind = "latest" THEN <<[number |-> chain.head]>>
  ELSE IF blockTag.kind = "number" /\ blockTag.n <= chain.head
    THEN <<[number |-> blockTag.n]>>
  ELSE <<>>

\* if (blockTag): undefined and the number 0 are falsy.
Truthy(blockTag) ==
  blockTag.kind = "latest" \/ (blockTag.kind = "number" /\ blockTag.n # 0)

\* typeof message === "string" ? message : serialize(message)
messageString(message) ==
  IF message.typeof = "string" THEN message.value ELSE serialize(message.value)

\* What the promise of isAuthorizedTo(signerAddr, contractAddr, permission,
\* blockNumber) settles to: the identity contract's answer at that block,
\* or the rejection of the provider's call.  A chain names the requests
\* its provider rejects.
isAuthorizedTo(chain, signerAddr, contractAddr, permission, blockNumber) ==
  IF "call" \in chain.rejects THEN Throws("ProviderError")
  ELSE Returns(<<signerAddr, contractAddr, permission>> \in chain.authorized[blockNumber])

\* A call of isMessageSignatureAuthorizedTo at one of its awaits, or
\* ended: provider is the local of that name, blockNumber the local once
\* isAuthorizedTo has been called with it, outcome what the call's promise
\* settled to.
Awaiting(await, provider, blockNumber) ==
  [pc |-> await, provider |-> provider, blockNumber |-> blockNumber, outcome |-> <<>>]
Settled(call, outcome) == [call EXCEPT !.pc = "done", !.outcome = <<outcome>>]

\* decodeReturnValues: the address and the name are decoded from log.data.
decodeReturnValues(logs) ==
  [i \in 1..Len(logs) |->
    [contractAddr |-> logs[i].data[1], contractName |-> logs[i].data[2],
     blockNumber |-> logs[i].blockNumber]]

RECURSIVE filterValues(_, _)
filterValues(values, contractName) ==
  IF values = <<>> THEN <<>>
  ELSE IF values[1].contractName = contractName
    THEN <<values[1]>> \o filterValues(Tail(values), contractName)
  ELSE filterValues(Tail(values), contractName)

getContractAddress_first(logs, contractName) ==
  LET filteredResults == filterValues(decodeReturnValues(logs.value), contractName)
  IN  IF logs.threw THEN logs
      ELSE IF Len(filteredResults) > 0 THEN Returns(<<filteredResults[1].contractAddr>>)
      ELSE Returns(<<>>)
\* getContractAddress: logs is what the promise of provider.getLogs
\* settles to, whose rejection rejects the call; the value returned is
\* <<the address>>, or <<>> for null.
getContractAddress(logs, contractName) ==
  LET filteredResults == filterValues(decodeReturnValues(logs.value), contractName)
  IN  IF logs.threw THEN logs
      ELSE IF Len(filteredResults) > 0
      THEN Returns(<<filteredResults[Len(filteredResults)].contractAddr>>)
      ELSE Returns(<<>>)

\* The calls of the contracts specification.  resolved is what the promise
\* of resolveId(dsnpUserId) settles to: a registration, <<>> for none, or
\* a rejection.  provider is what the configuration holds at the call,
\* <<>> when missing.  message is a DSNP message or a string.
InitContracts ==
  LET ContractsArguments ==
        LET message == createBroadcastMessage(Text.id1, Text.dsnpOrg, Text.hash12345)
            chains == [head : 1..MaxBlock,
                       authorized : [0..MaxBlock -> SUBSET {<<1, 10, 1>>}],
                       rejects : SUBSET {"getBlock", "call"}]
            tags == {[kind |-> "undefined", n |-> 0], [kind |-> "latest", n |-> 0]}
                      \cup {[kind |-> "number", n |-> n] : n \in 0..MaxBlock}
            names == {Text.a, Text.hello}
        IN  {[fn |-> "isMessageSignatureAuthorizedTo",
              signature |-> signMessage(s, serialize(message)), message |-> m,
              resolved |-> r, provider |-> p, permission |-> 1, blockTag |-> t] :
               s \in {1, 2},
               m \in {[typeof |-> "object", value |-> message],
                      [typeof |-> "string", value |-> serialize(message)],
                      [typeof |-> "string", value |-> Text.hello]},
               r \in {Returns(<<>>), Returns(<<10>>), Throws("ProviderError")},
               p \in {<<>>} \cup {<<c>> : c \in chains},
               t \in tags}
            \cup {[fn |-> "getContractAddress", logs |-> l, contractName |-> n] :
                    l \in {Throws("ProviderError")}
                          \cup {Returns(logs) :
                                  logs \in UNION {[1..k -> {[data |-> <<a, m>>, blockNumber |-> 0] :
                                                     a \in {10, 11}, m \in names}] :
                                                   k \in 0..MaxLogs}},
                    n \in names}
  IN  /\ NoBatch
      /\ argument \in ContractsArguments
      /\ returned = <<>>
      /\ config = [currentFromId |-> <<>>, store |-> FALSE, signer |-> <<>>,
                   provider |-> IF argument.fn = "isMessageSignatureAuthorizedTo"
                                THEN argument.provider ELSE <<>>]
      /\ testStore = <<>>
      /\ contentCalls = <<>>
      /\ microtasks = <<>>

\* The call runs up to await resolveId(dsnpUserId).
IsMessageSignatureAuthorizedTo ==
  /\ argument.fn = "isMessageSignatureAuthorizedTo" /\ returned = <<>>
  /\ returned' = <<Awaiting("resolveId", <<>>, <<>>)>>
  /\ UNCHANGED <<batchVars, contentVars, argument>>

\* The call is at the await named.
At(await) ==
  /\ argument.fn = "isMessageSignatureAuthorizedTo"
  /\ returned # <<>> /\ returned[1].pc = await

\* messageString, signerAddr and the call of isAuthorizedTo with the
\* block number the call has by now; the call's promise follows the one
\* isAuthorizedTo returns.
CallIsAuthorizedTo(provider, blockNumber) ==
  returned' = <<Awaiting("isAuthorizedTo", provider, <<blockNumber>>)>>

\* After await resolveId: no registration throws MissingContract; the
\* provider is read from the configuration as it is now, and a missing
\* one throws MissingProvider; with a truthy blockTag the call awaits
\* provider.getBlock(blockNumber), blockNumber being 0x0.
AfterResolveId ==
  /\ At("resolveId")
  /\ IF argument.resolved.threw THEN returned' = <<Settled(returned[1], argument.resolved)>>
     ELSE IF argument.resolved.value = <<>>
       THEN returned' = <<Settled(returned[1], Throws("MissingContract"))>>
     ELSE IF config.provider = <<>>
       THEN returned' = <<Settled(returned[1], Throws("MissingProvider"))>>
     ELSE IF Truthy(argument.blockTag)
       THEN returned' = <<Awaiting("getBlock", config.provider, <<>>)>>
     ELSE CallIsAuthorizedTo(config.provider, 0)
  /\ UNCHANGED <<batchVars, contentVars, argument>>

\* After await provider.getBlock(blockNumber): its rejection rejects the
\* call; bn is the number of the block got, and blockNumber becomes bn
\* if bn is truthy.
AfterGetBlock ==
  /\ At("getBlock")
  /\ LET chain == returned[1].provider[1]
         block == getBlock(chain, [kind |-> "number", n |-> 0])
     IN  IF "getBlock" \in chain.rejects
         THEN returned' = <<Settled(returned[1], Throws("ProviderError"))>>
         ELSE CallIsAuthorizedTo(returned[1].provider,
                IF block # <<>> /\ block[1].number # 0 THEN block[1].number ELSE 0)
  /\ UNCHANGED <<batchVars, contentVars, argument>>

\* The promise of isAuthorizedTo settles, and the call's with it.
AfterIsAuthorizedTo ==
  /\ At("isAuthorizedTo")
  /\ returned' = <<Settled(returned[1],
                     isAuthorizedTo(returned[1].provider[1],
                       verifyMessage(messageString(argument.message), argument.signature),
                       argument.resolved.value[1], argument.permission,
                       returned[1].blockNumber[1]))>>
  /\ UNCHANGED <<batchVars, contentVars, argument>>

\* While the call awaits, the provider is taken out of the configuration.
RemoveProvider ==
  /\ argument.fn = "isMessageSignatureAuthorizedTo"
  /\ returned # <<>> /\ returned[1].pc # "done"
  /\ config.provider # <<>>
  /\ config' = [config EXCEPT !.provider = <<>>]
  /\ UNCHANGED <<batchVars, argument, returned, testStore, contentCalls, microtasks>>

GetContractAddress ==
  /\ argument.fn = "getContractAddress" /\ returned = <<>>
  /\ returned' = <<getContractAddress(argument.logs, argument.contractName)>>
  /\ UNCHANGED <<batchVars, contentVars, argument>>

SpecContracts ==
  InitContracts /\ [][IsMessageSignatureAuthorizedTo \/ AfterResolveId \/ AfterGetBlock
                        \/ AfterIsAuthorizedTo \/ RemoveProvider \/ GetContractAddress]_vars

\* C25: isMessageSignatureAuthorizedTo asks for the signer's permission at
\* the block blockTag identifies when a blockTag is given, and at block 0
\* when none is given.
C25_PermissionCheckedAtBlockTag ==
  (argument # <<>> /\ At("done") /\ ~returned[1].outcome[1].threw)
    => LET tag == argument.blockTag
           identified == getBlock(argument.provider[1], tag)
       IN  /\ tag.kind = "undefined" => returned[1].blockNumber = <<0>>
           /\ (tag.kind # "undefined" /\ identified # <<>>)
                => returned[1].blockNumber = <<identified[1].number>>

\* C26: getContractAddress returns the contractAddr of the last log whose
\* contractName is the requested name, and null exactly when no log has
\* that name.
C26_LastLogWithName ==
  (argument # <<>> /\ argument.fn = "getContractAddress" /\ returned # <<>>
     /\ ~argument.logs.threw) =>
    LET logs == argument.logs.value
        named == {i \in 1..Len(logs) : logs[i].data[2] = argument.contractName}
    IN  /\ ~returned[1].threw
        /\ returned[1].value = <<>> <=> named = {}
        /\ \A i \in named :
             (\A j \in named : j <= i) => returned[1].value = <<logs[i].data[1]>>

\* Two logs carry the name with different addresses and a log with
\* another name comes last; the second log's address is returned.
C26_Witness ==
  /\ argument # <<>> /\ argument.fn = "getContractAddress"
  /\ ~argument.logs.threw
  /\ Len(argument.logs.value) = 3
  /\ argument.logs.value[1].data = <<10, argument.contractName>>
  /\ argument.logs.value[2].data = <<11, argument.contractName>>
  /\ argument.logs.value[3].data[2] # argument.contractName
  /\ returned = <<Returns(<<11>>)>>


\* ---------------------------------------------------------------------
\* Serialization of the announcements the validators accept

\* C27: two announcements of the same type that the validators accept and
\* whose field values differ never serialize to the same string.
C27_SerializeIsInjective ==
  (Len(returned) = 1 /\ argument[1].objects # <<>>) =>
    LET a == argument[1].objects[1]
        b == argument[1].objects[2]
    IN  (/\ isBroadcastAnnouncement(a) = Returns(TRUE)
         /\ isBroadcastAnnouncement(b) = Returns(TRUE)
         /\ a # b)
          => returned[1].first # returned[1].second

====
